---- MODULE Spec2Model ----
(***************************************************************************)
(* Verification model of the QR generator: the payload encoders            *)
(* (src/utils/qr-encoding.ts), the colour-contrast utility                 *)
(* (src/utils/color-contrast.ts), the contact and calendar forms           *)
(* (src/components/qr/data-input-form.tsx) and the page state with its     *)
(* logo upload (src/components/qr/qr-input-panel.tsx, branding-panel.tsx). *)
(* The input validators of color-contrast.ts, the preview                  *)
(* (QRPreviewCanvas with the QRCodeRenderer of                             *)
(* src/components/qr/qr-code-renderer.tsx) and useDebounce                 *)
(* (src/utils/qr-utils.ts) follow.                                         *)
(*                                                                         *)
(* A JavaScript string is a sequence of one-character strings.  A missing  *)
(* optional property is the value Undefined.                               *)
(***************************************************************************)
EXTENDS Integers, Sequences, FiniteSets, TLC

VARIABLES
    wifiCred,    \* the WiFiCredentials record handed to encodeWiFi
    wifiOut,     \* the string encodeWiFi returned, NoResult before the call
    phoneIn,     \* the phoneNumber handed to encodePhone
    phoneOut,    \* the string encodePhone returned, NoResult before the call
    calEvent,    \* the CalendarEventData record handed to encodeCalendarEvent
    calOut,      \* what encodeCalendarEvent did: a string, or RangeError thrown
    qrState,     \* QRGeneratorPage: the QRState held by useState
    reads,       \* the FileReader reads in flight, one record per reader
    uploads,     \* the number of logo files accepted by processFile so far
    bpError,     \* BrandingPanel: error
    showWarning, \* BrandingPanel: showWarning
    vcFields,    \* VCardInput: the nine useState text fields
    vcError,     \* VCardInput: error
    cfFields,    \* CalendarInput: title, location, description, startDate, endDate
    cfError,     \* CalendarInput: error
    timeZoneOffset, \* minutes east of UTC of Intl.DateTimeFormat().resolvedOptions().timeZone
    emcArgs,     \* ensureMinimumContrast: colorToAdjust, referenceColor, minRatio
    emcPc,       \* ensureMinimumContrast: "idle", "called", "loop" or "done"
    emcAdjusted, \* ensureMinimumContrast: adjustedColor
    emcAttempts, \* ensureMinimumContrast: attempts
    emcResult,   \* ensureMinimumContrast: the colour returned
    emcVisited,  \* history: the colours adjustedColor has held during the call
    vcardData,   \* the VCardData record handed to encodeVCard
    vcardOut,    \* the string encodeVCard returned, NoResult before the call
    emailData,   \* the EmailData record handed to encodeEmail
    emailOut,    \* the string encodeEmail returned, NoResult before the call
    smsData,     \* the SMSData record handed to encodeSMS
    smsOut,      \* the string encodeSMS returned, NoResult before the call
    geoData,     \* the GeolocationData record handed to encodeGeolocation
    geoOut,      \* the string encodeGeolocation returned, NoResult before the call
    ccArgs,      \* the foreground and background handed to checkContrastLevel
    ccOut,       \* what checkContrastLevel returned, NoCheck before the call
    gccPc,       \* generateContrastingColors: "idle", "called", "background", "foreground", "ratio" or "done"
    gccForegroundLight, \* generateContrastingColors: foregroundLight
    gccForeground, \* generateContrastingColors: foreground
    gccBackground, \* generateContrastingColors: background
    grcColor,    \* generateRandomColorWithLuminance: color
    valPhone,    \* the phone handed to isValidPhone
    valPhoneOut, \* what isValidPhone returned, NoVerdict before the call
    valNumber,   \* the number handed to isValidLatitude and isValidLongitude
    valLatOut,   \* what isValidLatitude returned, NoVerdict before the call
    valLngOut,   \* what isValidLongitude returned, NoVerdict before the call
    valFile,     \* the File handed to validateLogoFile
    valFileOut,  \* the ValidationResult validateLogoFile returned, NoValidation before the call
    debouncedState, \* QRPreviewCanvas: content, margin and shape of debouncedState
    isLoading,   \* QRPreviewCanvas: isLoading
    error,       \* QRPreviewCanvas: error, "null" or the message
    rendererMounted, \* whether QRPreviewCanvas renders a QRCodeRenderer
    qrRef,       \* QRCodeRenderer: qrRef.current, the options of the live instance or NoInstance
    prevMarginRef, \* QRCodeRenderer: prevMarginRef.current
    prevShapeRef,  \* QRCodeRenderer: prevShapeRef.current
    effects,     \* the effects of the last commit still to run, in the order React runs them
    renderOutcome, \* how the render effect last ended: "none", "pending", "skipped", "complete" or "error"
    inputValue,  \* useDebounce: value, the argument of the current render
    debouncedValue, \* useDebounce: debouncedValue
    timers,      \* useDebounce: the timeouts set and neither run nor cleared
    valueAge     \* history: the time since inputValue last changed, counted up to the delay

wifiVars == <<wifiCred, wifiOut>>
phoneVars == <<phoneIn, phoneOut>>
calVars == <<calEvent, calOut>>
vcVars == <<vcFields, vcError>>
cfVars == <<cfFields, cfError, timeZoneOffset>>
brandingVars == <<reads, uploads, bpError, showWarning>>
pageVars == <<qrState, brandingVars>>
emcVars == <<emcArgs, emcPc, emcAdjusted, emcAttempts, emcResult, emcVisited>>
encVars == <<vcardData, vcardOut, emailData, emailOut, smsData, smsOut, geoData, geoOut>>
gccVars == <<gccPc, gccForegroundLight, gccForeground, gccBackground, grcColor>>
ccVars == <<ccArgs, ccOut, gccVars>>
valVars == <<valPhone, valPhoneOut, valNumber, valLatOut, valLngOut, valFile, valFileOut>>
previewVars == <<debouncedState, isLoading, error, rendererMounted, qrRef, prevMarginRef, prevShapeRef,
                 effects, renderOutcome>>
debounceVars == <<inputValue, debouncedValue, timers, valueAge>>
restVars == <<valVars, previewVars, debounceVars>>
notVal == <<wifiVars, phoneVars, calVars, vcVars, cfVars, pageVars, emcVars, encVars, ccVars, previewVars, debounceVars>>
notPreview == <<wifiVars, phoneVars, calVars, vcVars, cfVars, pageVars, emcVars, encVars, ccVars, valVars, debounceVars>>
notDebounce == <<wifiVars, phoneVars, calVars, vcVars, cfVars, pageVars, emcVars, encVars, ccVars, valVars, previewVars>>
vars == <<wifiVars, phoneVars, calVars, vcVars, cfVars, pageVars, emcVars, encVars, ccVars, restVars>>

----------------------------------------------------------------------------
(* Bounds of the model *)

MaxWiFiLen == 2
MaxPhoneLen == 3
MaxUploads == 2
MaxUriLen == 2

----------------------------------------------------------------------------
(* Strings *)

Undefined == <<"<undefined>">>
NoResult == <<"<no result>">>

Digits == {"0", "1", "2", "3", "4", "5", "6", "7", "8", "9"}

StrUpTo(A, n) == UNION {[1..k -> A] : k \in 0..n}

\* String.prototype.replace(/c/g, rep): every occurrence of the character c
\* is replaced by the string rep, in one left-to-right pass.
RECURSIVE ReplaceAll(_, _, _)
ReplaceAll(str, c, rep) ==
    IF str = <<>> THEN <<>>
    ELSE (IF Head(str) = c THEN rep ELSE <<Head(str)>>)
         \o ReplaceAll(Tail(str), c, rep)

\* JavaScript truthiness of an optional string: undefined and "" are falsy.
Truthy(s) == s # Undefined /\ s # <<>>

IsPrefix(p, s) == Len(p) <= Len(s) /\ SubSeq(s, 1, Len(p)) = p
IsSuffix(p, s) == Len(p) <= Len(s) /\ SubSeq(s, Len(s) - Len(p) + 1, Len(s)) = p

----------------------------------------------------------------------------
(* encodeWiFi *)

WiFiEncryption == {"WPA", "WEP", "nopass"}

EncryptionText(e) ==
    CASE e = "WPA" -> <<"W", "P", "A">>
      [] e = "WEP" -> <<"W", "E", "P">>
      [] e = "nopass" -> <<"n", "o", "p", "a", "s", "s">>

escapeWiFiStringLate(str) ==
    ReplaceAll(
        ReplaceAll(
            ReplaceAll(
                ReplaceAll(
                    ReplaceAll(str, ";", <<"\\", ";">>),
                    ",", <<"\\", ",">>),
                ":", <<"\\", ":">>),
            "\"", <<"\\", "\"">>),
        "\\", <<"\\", "\\">>)

escapeWiFiString(str) ==
    ReplaceAll(
        ReplaceAll(
            ReplaceAll(
                ReplaceAll(
                    ReplaceAll(str, "\\", <<"\\", "\\">>),
                    ";", <<"\\", ";">>),
                ",", <<"\\", ",">>),
            ":", <<"\\", ":">>),
        "\"", <<"\\", "\"">>)

\* const { ssid, password = "", encryption, hidden = false } = credentials
WiFiPassword(c) == IF c.password = Undefined THEN <<>> ELSE c.password
WiFiHidden(c) == IF c.hidden = "undefined" THEN "false" ELSE c.hidden

encodeWiFiAnyPassword(c) ==
    <<"W", "I", "F", "I", ":", "T", ":">> \o EncryptionText(c.encryption)
    \o <<";", "S", ":">> \o escapeWiFiString(c.ssid) \o <<";">>
    \o (IF WiFiPassword(c) # <<>>
        THEN <<"P", ":">> \o escapeWiFiString(WiFiPassword(c)) \o <<";">>
        ELSE <<>>)
    \o (IF WiFiHidden(c) = "true" THEN <<"H", ":", "t", "r", "u", "e", ";">> ELSE <<>>)
    \o <<";">>

encodeWiFiHiddenAlways(c) ==
    <<"W", "I", "F", "I", ":", "T", ":">> \o EncryptionText(c.encryption)
    \o <<";", "S", ":">> \o escapeWiFiString(c.ssid) \o <<";">>
    \o (IF c.encryption # "nopass" /\ WiFiPassword(c) # <<>>
        THEN <<"P", ":">> \o escapeWiFiString(WiFiPassword(c)) \o <<";">>
        ELSE <<>>)
    \o (IF c.hidden # "undefined" THEN <<"H", ":", "t", "r", "u", "e", ";">> ELSE <<>>)
    \o <<";">>

encodeWiFi(c) ==
    <<"W", "I", "F", "I", ":", "T", ":">> \o EncryptionText(c.encryption)
    \o <<";", "S", ":">> \o escapeWiFiString(c.ssid) \o <<";">>
    \o (IF c.encryption # "nopass" /\ WiFiPassword(c) # <<>>
        THEN <<"P", ":">> \o escapeWiFiString(WiFiPassword(c)) \o <<";">>
        ELSE <<>>)
    \o (IF WiFiHidden(c) = "true" THEN <<"H", ":", "t", "r", "u", "e", ";">> ELSE <<>>)
    \o <<";">>

WiFiAlphabet == {"P", ";", ",", ":", "\"", "\\"}

WiFiCredentials ==
    [ssid : StrUpTo(WiFiAlphabet, MaxWiFiLen),
     password : StrUpTo(WiFiAlphabet, MaxWiFiLen) \cup {Undefined},
     encryption : WiFiEncryption,
     hidden : {"true", "false", "undefined"}]

WiFiIdle == wifiCred = [ssid |-> <<>>, password |-> Undefined,
                        encryption |-> "WPA", hidden |-> "undefined"]
            /\ wifiOut = NoResult

CallEncodeWiFi ==
    /\ wifiOut = NoResult
    /\ wifiOut' = encodeWiFi(wifiCred)
    /\ UNCHANGED <<wifiCred, phoneVars, calVars, vcVars, cfVars, pageVars, emcVars, encVars, ccVars, restVars>>

----------------------------------------------------------------------------
(* encodePhone *)

\* phoneNumber.replace(/[^\d+]/g, "")
CleanNumber(str) == SelectSeq(str, LAMBDA ch : ch \in Digits \cup {"+"})

encodePhone(phoneNumber) == <<"t", "e", "l", ":">> \o CleanNumber(phoneNumber)

PhoneAlphabet == {"+", "1", "7", " ", "-", "x"}

PhoneIdle == phoneIn = <<>> /\ phoneOut = NoResult

CallEncodePhone ==
    /\ phoneOut = NoResult
    /\ phoneOut' = encodePhone(phoneIn)
    /\ UNCHANGED <<phoneIn, wifiVars, calVars, vcVars, cfVars, pageVars, emcVars, encVars, ccVars, restVars>>

----------------------------------------------------------------------------
(* Date: a time value is a number of milliseconds counted from            *)
(* 2024-01-01T00:00:00.000Z, or NaN.  The model covers the instants of the  *)
(* first MaxDay days of January 2024.                                       *)

NaN == -1
MaxDay == 20
MsPerSecond == 1000
MsPerMinute == 60000
MsPerHour == 3600000
MsPerDay == 86400000

DigitChars == <<"0", "1", "2", "3", "4", "5", "6", "7", "8", "9">>
DigitVal(ch) == CHOOSE d \in 0..9 : DigitChars[d + 1] = ch

Pad2(n) == <<DigitChars[(n \div 10) + 1], DigitChars[(n % 10) + 1]>>
Pad3(n) == <<DigitChars[(n \div 100) + 1]>> \o Pad2(n % 100)

Num2(s, i) == DigitVal(s[i]) * 10 + DigitVal(s[i + 1])
Num3(s, i) == DigitVal(s[i]) * 100 + Num2(s, i + 1)

\* Date.prototype.toISOString of a valid time value: YYYY-MM-DDTHH:mm:ss.sssZ
toISOString(ms) ==
    <<"2", "0", "2", "4", "-", "0", "1", "-">> \o Pad2((ms \div MsPerDay) + 1) \o <<"T">>
    \o Pad2((ms % MsPerDay) \div MsPerHour) \o <<":">>
    \o Pad2((ms % MsPerHour) \div MsPerMinute) \o <<":">>
    \o Pad2((ms % MsPerMinute) \div MsPerSecond) \o <<".">>
    \o Pad3(ms % MsPerSecond) \o <<"Z">>

IsIsoInstant(str) ==
    /\ Len(str) = 24
    /\ SubSeq(str, 1, 8) = <<"2", "0", "2", "4", "-", "0", "1", "-">>
    /\ str[11] = "T" /\ str[14] = ":" /\ str[17] = ":" /\ str[20] = "." /\ str[24] = "Z"
    /\ \A i \in {9, 10, 12, 13, 15, 16, 18, 19, 21, 22, 23} : str[i] \in Digits
    /\ Num2(str, 9) \in 1..MaxDay
    /\ Num2(str, 12) < 24 /\ Num2(str, 15) < 60 /\ Num2(str, 18) < 60

\* An ISO-8601 instant with a numeric zone: YYYY-MM-DDTHH:mm:ss.sss+HH:MM
IsIsoOffsetInstant(str) ==
    /\ Len(str) = 29
    /\ IsIsoInstant(SubSeq(str, 1, 23) \o <<"Z">>)
    /\ str[24] \in {"+", "-"} /\ str[27] = ":"
    /\ \A i \in {25, 26, 28, 29} : str[i] \in Digits
    /\ Num2(str, 25) < 24 /\ Num2(str, 28) < 60

\* The time value of an instant of the model, NaN outside its days.
TimeClip(ms) == IF ms >= 0 /\ ms < MaxDay * MsPerDay THEN ms ELSE NaN

\* new Date(dateStr).getTime(): the time value of an ISO-8601 instant, NaN for
\* a string that is not a date.
DateParse(str) ==
    IF IsIsoInstant(str)
    THEN (Num2(str, 9) - 1) * MsPerDay + Num2(str, 12) * MsPerHour
         + Num2(str, 15) * MsPerMinute + Num2(str, 18) * MsPerSecond + Num3(str, 21)
    ELSE IF IsIsoOffsetInstant(str)
    THEN LET local == (Num2(str, 9) - 1) * MsPerDay + Num2(str, 12) * MsPerHour
                      + Num2(str, 15) * MsPerMinute + Num2(str, 18) * MsPerSecond
                      + Num3(str, 21)
             zone == Num2(str, 25) * MsPerHour + Num2(str, 28) * MsPerMinute
         IN TimeClip(IF str[24] = "+" THEN local - zone ELSE local + zone)
    ELSE NaN

\* str.replace(/[-:]/g, "")
RemoveDashColon(str) == SelectSeq(str, LAMBDA ch : ch \notin {"-", ":"})

\* str.split(sep)[0]
RECURSIVE SplitFirst(_, _)
SplitFirst(str, sep) ==
    IF str = <<>> \/ Head(str) = sep THEN <<>>
    ELSE <<Head(str)>> \o SplitFirst(Tail(str), sep)

----------------------------------------------------------------------------
(* encodeCalendarEvent *)

\* The outcome of a call that throws: toISOString of an invalid Date raises
\* RangeError.
RangeError == <<"<RangeError: Invalid time value>">>

formatDate(dateStr, isAllDay) ==
    IF DateParse(dateStr) = NaN THEN RangeError
    ELSE IF isAllDay
         THEN SplitFirst(RemoveDashColon(toISOString(DateParse(dateStr))), "T")
         ELSE SplitFirst(RemoveDashColon(toISOString(DateParse(dateStr))), ".") \o <<"Z">>

encodeCalendarEventDescriptionFirst(data) ==
    IF formatDate(data.startDate, FALSE) = RangeError
       \/ formatDate(data.endDate, FALSE) = RangeError
    THEN RangeError
    ELSE
        <<"B", "E", "G", "I", "N", ":", "V", "C", "A", "L", "E", "N", "D", "A", "R", "\n">>
        \o <<"V", "E", "R", "S", "I", "O", "N", ":", "2", ".", "0", "\n">>
        \o <<"B", "E", "G", "I", "N", ":", "V", "E", "V", "E", "N", "T", "\n">>
        \o <<"S", "U", "M", "M", "A", "R", "Y", ":">> \o data.title \o <<"\n">>
        \o (IF data.allDay = "true"
            THEN <<"D", "T", "S", "T", "A", "R", "T", ";", "V", "A", "L", "U", "E", "=", "D", "A", "T", "E", ":">> \o formatDate(data.startDate, TRUE) \o <<"\n">>
                 \o <<"D", "T", "E", "N", "D", ";", "V", "A", "L", "U", "E", "=", "D", "A", "T", "E", ":">> \o formatDate(data.endDate, TRUE) \o <<"\n">>
            ELSE <<"D", "T", "S", "T", "A", "R", "T", ":">> \o formatDate(data.startDate, FALSE) \o <<"\n">>
                 \o <<"D", "T", "E", "N", "D", ":">> \o formatDate(data.endDate, FALSE) \o <<"\n">>)
        \o (IF Truthy(data.description)
            THEN <<"D", "E", "S", "C", "R", "I", "P", "T", "I", "O", "N", ":">> \o data.description \o <<"\n">> ELSE <<>>)
        \o (IF Truthy(data.location)
            THEN <<"L", "O", "C", "A", "T", "I", "O", "N", ":">> \o data.location \o <<"\n">> ELSE <<>>)
        \o <<"E", "N", "D", ":", "V", "E", "V", "E", "N", "T", "\n">>
        \o <<"E", "N", "D", ":", "V", "C", "A", "L", "E", "N", "D", "A", "R">>

encodeCalendarEvent(data) ==
    IF formatDate(data.startDate, FALSE) = RangeError
       \/ formatDate(data.endDate, FALSE) = RangeError
    THEN RangeError
    ELSE
        <<"B", "E", "G", "I", "N", ":", "V", "C", "A", "L", "E", "N", "D", "A", "R", "\n">>
        \o <<"V", "E", "R", "S", "I", "O", "N", ":", "2", ".", "0", "\n">>
        \o <<"B", "E", "G", "I", "N", ":", "V", "E", "V", "E", "N", "T", "\n">>
        \o <<"S", "U", "M", "M", "A", "R", "Y", ":">> \o data.title \o <<"\n">>
        \o (IF data.allDay = "true"
            THEN <<"D", "T", "S", "T", "A", "R", "T", ";", "V", "A", "L", "U", "E", "=", "D", "A", "T", "E", ":">> \o formatDate(data.startDate, TRUE) \o <<"\n">>
                 \o <<"D", "T", "E", "N", "D", ";", "V", "A", "L", "U", "E", "=", "D", "A", "T", "E", ":">> \o formatDate(data.endDate, TRUE) \o <<"\n">>
            ELSE <<"D", "T", "S", "T", "A", "R", "T", ":">> \o formatDate(data.startDate, FALSE) \o <<"\n">>
                 \o <<"D", "T", "E", "N", "D", ":">> \o formatDate(data.endDate, FALSE) \o <<"\n">>)
        \o (IF Truthy(data.location)
            THEN <<"L", "O", "C", "A", "T", "I", "O", "N", ":">> \o data.location \o <<"\n">> ELSE <<>>)
        \o (IF Truthy(data.description)
            THEN <<"D", "E", "S", "C", "R", "I", "P", "T", "I", "O", "N", ":">> \o data.description \o <<"\n">> ELSE <<>>)
        \o <<"E", "N", "D", ":", "V", "E", "V", "E", "N", "T", "\n">>
        \o <<"E", "N", "D", ":", "V", "C", "A", "L", "E", "N", "D", "A", "R">>

SampleInstants == {0, 9 * MsPerDay + 9 * MsPerHour + 30 * MsPerMinute + 15 * MsPerSecond,
                   14 * MsPerDay + 23 * MsPerHour + 59 * MsPerMinute + 59 * MsPerSecond + 999}

DateStrings == {toISOString(t) : t \in SampleInstants}
               \cup {<<"2", "0", "2", "4", "-", "0", "1", "-", "1", "0", "T", "0", "1", ":", "3", "0", ":", "1", "5", ".", "0", "0", "0", "+", "0", "2", ":", "0", "0">>}
               \cup {<<>>, <<"n", "o", "t", " ", "a", " ", "d", "a", "t", "e">>}

CalendarEvents ==
    [title : {<<>>, <<"T">>},
     location : {Undefined, <<>>, <<"L">>},
     description : {Undefined, <<"D">>},
     startDate : DateStrings,
     endDate : DateStrings,
     allDay : {"true", "false", "undefined"}]

CalIdle == calEvent = [title |-> <<>>, location |-> Undefined, description |-> Undefined,
                       startDate |-> <<>>, endDate |-> <<>>, allDay |-> "undefined"]
           /\ calOut = NoResult

CallEncodeCalendarEvent ==
    /\ calOut = NoResult
    /\ calOut' = encodeCalendarEvent(calEvent)
    /\ UNCHANGED <<calEvent, wifiVars, phoneVars, vcVars, cfVars, pageVars, emcVars, encVars, ccVars, restVars>>

----------------------------------------------------------------------------
(* encodeVCard *)

VCardFieldNames == {"firstName", "lastName", "organization", "title", "phone",
                    "email", "url", "address", "note"}

encodeVCardEmailFirst(data) ==
    <<"B", "E", "G", "I", "N", ":", "V", "C", "A", "R", "D", "\n">>
    \o <<"V", "E", "R", "S", "I", "O", "N", ":", "3", ".", "0", "\n">>
    \o <<"N", ":">> \o data.lastName \o <<";">> \o data.firstName \o <<";", ";", ";", "\n">>
    \o <<"F", "N", ":">> \o data.firstName \o <<" ">> \o data.lastName \o <<"\n">>
    \o (IF Truthy(data.organization)
        THEN <<"O", "R", "G", ":">> \o data.organization \o <<"\n">> ELSE <<>>)
    \o (IF Truthy(data.title)
        THEN <<"T", "I", "T", "L", "E", ":">> \o data.title \o <<"\n">> ELSE <<>>)
    \o (IF Truthy(data.email)
        THEN <<"E", "M", "A", "I", "L", ":">> \o data.email \o <<"\n">> ELSE <<>>)
    \o (IF Truthy(data.phone)
        THEN <<"T", "E", "L", ";", "T", "Y", "P", "E", "=", "C", "E", "L", "L", ":">> \o CleanNumber(data.phone) \o <<"\n">> ELSE <<>>)
    \o (IF Truthy(data.url)
        THEN <<"U", "R", "L", ":">> \o data.url \o <<"\n">> ELSE <<>>)
    \o (IF Truthy(data.address)
        THEN <<"A", "D", "R", ":", ";", ";">> \o data.address \o <<";", ";", ";", ";", "\n">> ELSE <<>>)
    \o (IF Truthy(data.note)
        THEN <<"N", "O", "T", "E", ":">> \o data.note \o <<"\n">> ELSE <<>>)
    \o <<"E", "N", "D", ":", "V", "C", "A", "R", "D">>

encodeVCard(data) ==
    <<"B", "E", "G", "I", "N", ":", "V", "C", "A", "R", "D", "\n">>
    \o <<"V", "E", "R", "S", "I", "O", "N", ":", "3", ".", "0", "\n">>
    \o <<"N", ":">> \o data.lastName \o <<";">> \o data.firstName \o <<";", ";", ";", "\n">>
    \o <<"F", "N", ":">> \o data.firstName \o <<" ">> \o data.lastName \o <<"\n">>
    \o (IF Truthy(data.organization)
        THEN <<"O", "R", "G", ":">> \o data.organization \o <<"\n">> ELSE <<>>)
    \o (IF Truthy(data.title)
        THEN <<"T", "I", "T", "L", "E", ":">> \o data.title \o <<"\n">> ELSE <<>>)
    \o (IF Truthy(data.phone)
        THEN <<"T", "E", "L", ";", "T", "Y", "P", "E", "=", "C", "E", "L", "L", ":">> \o CleanNumber(data.phone) \o <<"\n">> ELSE <<>>)
    \o (IF Truthy(data.email)
        THEN <<"E", "M", "A", "I", "L", ":">> \o data.email \o <<"\n">> ELSE <<>>)
    \o (IF Truthy(data.url)
        THEN <<"U", "R", "L", ":">> \o data.url \o <<"\n">> ELSE <<>>)
    \o (IF Truthy(data.address)
        THEN <<"A", "D", "R", ":", ";", ";">> \o data.address \o <<";", ";", ";", ";", "\n">> ELSE <<>>)
    \o (IF Truthy(data.note)
        THEN <<"N", "O", "T", "E", ":">> \o data.note \o <<"\n">> ELSE <<>>)
    \o <<"E", "N", "D", ":", "V", "C", "A", "R", "D">>

notEnc == <<wifiVars, phoneVars, calVars, vcVars, cfVars, pageVars, emcVars, ccVars, restVars>>

VCardTextInputs(f) ==
    CASE f = "firstName" -> {<<>>, <<"J">>}
      [] f = "lastName" -> {<<>>, <<"D">>}
      [] f = "organization" -> {Undefined, <<>>, <<"O">>}
      [] f = "title" -> {Undefined, <<>>, <<"T">>}
      [] f = "phone" -> {Undefined, <<>>, <<"+", "1", " ", "2">>, <<"x">>}
      [] f = "email" -> {Undefined, <<>>, <<"e">>}
      [] f = "url" -> {Undefined, <<>>, <<"u">>}
      [] f = "address" -> {Undefined, <<>>, <<"a">>}
      [] f = "note" -> {Undefined, <<>>, <<"n", "\n", "m">>}

VCardRecords ==
    [firstName : VCardTextInputs("firstName"),
     lastName : VCardTextInputs("lastName"),
     organization : VCardTextInputs("organization"),
     title : VCardTextInputs("title"),
     phone : VCardTextInputs("phone"),
     email : VCardTextInputs("email"),
     url : VCardTextInputs("url"),
     address : VCardTextInputs("address"),
     note : VCardTextInputs("note")]

VCardIdle == vcardData = [f \in VCardFieldNames |->
                             IF f \in {"firstName", "lastName"} THEN <<>> ELSE Undefined]
             /\ vcardOut = NoResult

CallEncodeVCard ==
    /\ vcardOut = NoResult
    /\ vcardOut' = encodeVCard(vcardData)
    /\ UNCHANGED <<vcardData, emailData, emailOut, smsData, smsOut, geoData, geoOut, notEnc>>

----------------------------------------------------------------------------
(* encodeEmail *)

\* The outcome of a call that throws: encodeURIComponent of a string that
\* holds a lone surrogate raises URIError.
URIError == <<"<URIError: URI malformed>">>

\* Code units of the model that are no ASCII characters: U+00E9 and a high
\* surrogate that no low surrogate follows.
LatinSmallEAcute == "<U+00E9>"
LoneSurrogate == "<U+D800>"

\* The characters encodeURIComponent leaves as they are.
UriUnreserved ==
    {"a", "b", "h", "m", "A", "Z"} \cup Digits \cup {"-", "_", ".", "!", "~", "*", "'", "(", ")"}

\* The escape of a character: the bytes of its UTF-8 form, each as %XX.
UriEscape(ch) ==
    CASE ch = " " -> <<"%", "2", "0">>
      [] ch = "%" -> <<"%", "2", "5">>
      [] ch = "&" -> <<"%", "2", "6">>
      [] ch = "=" -> <<"%", "3", "D">>
      [] ch = "?" -> <<"%", "3", "F">>
      [] ch = "@" -> <<"%", "4", "0">>
      [] ch = LatinSmallEAcute -> <<"%", "C", "3", "%", "A", "9">>

RECURSIVE UriEncodeChars(_)
UriEncodeChars(str) ==
    IF str = <<>> THEN <<>>
    ELSE (IF Head(str) \in UriUnreserved THEN <<Head(str)>> ELSE UriEscape(Head(str)))
         \o UriEncodeChars(Tail(str))

encodeURIComponent(str) ==
    IF \E i \in 1..Len(str) : str[i] = LoneSurrogate THEN URIError
    ELSE UriEncodeChars(str)

encodeEmailBodyFirst(data) ==
    IF \/ (Truthy(data.subject) /\ encodeURIComponent(data.subject) = URIError)
       \/ (Truthy(data.body) /\ encodeURIComponent(data.body) = URIError)
    THEN URIError
    ELSE
        LET subject == IF Truthy(data.subject)
                       THEN <<<<"s", "u", "b", "j", "e", "c", "t", "=">> \o encodeURIComponent(data.subject)>> ELSE <<>>
            body == IF Truthy(data.body)
                    THEN <<<<"b", "o", "d", "y", "=">> \o encodeURIComponent(data.body)>> ELSE <<>>
            params == body \o subject
        IN
        <<"m", "a", "i", "l", "t", "o", ":">> \o data.email
        \o (IF Len(params) = 0 THEN <<>>
            ELSE IF Len(params) = 1 THEN <<"?">> \o params[1]
            ELSE <<"?">> \o params[1] \o <<"&">> \o params[2])

encodeEmail(data) ==
    IF \/ (Truthy(data.subject) /\ encodeURIComponent(data.subject) = URIError)
       \/ (Truthy(data.body) /\ encodeURIComponent(data.body) = URIError)
    THEN URIError
    ELSE
        LET subject == IF Truthy(data.subject)
                       THEN <<<<"s", "u", "b", "j", "e", "c", "t", "=">> \o encodeURIComponent(data.subject)>> ELSE <<>>
            body == IF Truthy(data.body)
                    THEN <<<<"b", "o", "d", "y", "=">> \o encodeURIComponent(data.body)>> ELSE <<>>
            params == subject \o body
        IN
        <<"m", "a", "i", "l", "t", "o", ":">> \o data.email
        \o (IF Len(params) = 0 THEN <<>>
            ELSE IF Len(params) = 1 THEN <<"?">> \o params[1]
            ELSE <<"?">> \o params[1] \o <<"&">> \o params[2])

UriAlphabet == {"a", " ", "&", "?", LatinSmallEAcute, LoneSurrogate}

EmailRecords ==
    [email : {<<>>, <<"a", "@", "b">>},
     subject : {Undefined} \cup StrUpTo(UriAlphabet, MaxUriLen),
     body : {Undefined} \cup StrUpTo(UriAlphabet, MaxUriLen)]

EmailIdle == emailData = [email |-> <<>>, subject |-> Undefined, body |-> Undefined]
             /\ emailOut = NoResult

CallEncodeEmail ==
    /\ emailOut = NoResult
    /\ emailOut' = encodeEmail(emailData)
    /\ UNCHANGED <<emailData, vcardData, vcardOut, smsData, smsOut, geoData, geoOut, notEnc>>

----------------------------------------------------------------------------
(* encodeSMS *)

encodeSMSDigitsOnly(data) ==
    IF Truthy(data.message)
    THEN <<"s", "m", "s", "t", "o", ":">> \o SelectSeq(data.phone, LAMBDA ch : ch \in Digits) \o <<":">> \o data.message
    ELSE <<"s", "m", "s", "t", "o", ":">> \o SelectSeq(data.phone, LAMBDA ch : ch \in Digits)

encodeSMS(data) ==
    IF Truthy(data.message)
    THEN <<"s", "m", "s", "t", "o", ":">> \o CleanNumber(data.phone) \o <<":">> \o data.message
    ELSE <<"s", "m", "s", "t", "o", ":">> \o CleanNumber(data.phone)

SmsMessages == {Undefined, <<>>, <<"m">>, <<"a", ":", "b">>}

SmsIdle == smsData = [phone |-> <<>>, message |-> Undefined] /\ smsOut = NoResult

CallEncodeSMS ==
    /\ smsOut = NoResult
    /\ smsOut' = encodeSMS(smsData)
    /\ UNCHANGED <<smsData, vcardData, vcardOut, emailData, emailOut, geoData, geoOut, notEnc>>

----------------------------------------------------------------------------
(* encodeGeolocation                                                        *)
(*                                                                          *)
(* A number is held as a count of ten-thousandths (e4), or is NaN; an       *)
(* optional number that is left out is UndefinedNumber.                     *)

Number(e4) == [kind |-> "number", e4 |-> e4]
NaNNumber == [kind |-> "NaN", e4 |-> 0]
UndefinedNumber == [kind |-> "undefined", e4 |-> 0]

RECURSIVE NatToString(_)
NatToString(n) ==
    IF n < 10 THEN <<DigitChars[n + 1]>>
    ELSE NatToString(n \div 10) \o <<DigitChars[(n % 10) + 1]>>

\* The fraction digits of a number's decimal form, without trailing zeros.
FractionToString(f) ==
    IF f = 0 THEN <<>>
    ELSE LET digits == Pad2(f \div 100) \o Pad2(f % 100)
             keep == IF f % 1000 = 0 THEN 1
                     ELSE IF f % 100 = 0 THEN 2
                     ELSE IF f % 10 = 0 THEN 3 ELSE 4
         IN <<".">> \o SubSeq(digits, 1, keep)

\* Number::toString, as the template literal applies it.
NumberToString(n) ==
    IF n.kind = "NaN" THEN <<"N", "a", "N">>
    ELSE IF n.kind = "undefined" THEN <<"u", "n", "d", "e", "f", "i", "n", "e", "d">>
    ELSE LET a == IF n.e4 < 0 THEN 0 - n.e4 ELSE n.e4 IN
         (IF n.e4 < 0 THEN <<"-">> ELSE <<>>)
         \o NatToString(a \div 10000) \o FractionToString(a % 10000)

\* if (altitude) in place of if (altitude !== undefined)
encodeGeolocationTruthyAltitude(data) ==
    IF data.altitude.kind = "number" /\ data.altitude.e4 # 0
    THEN <<"g", "e", "o", ":">> \o NumberToString(data.latitude) \o <<",">> \o NumberToString(data.longitude)
         \o <<",">> \o NumberToString(data.altitude)
    ELSE <<"g", "e", "o", ":">> \o NumberToString(data.latitude) \o <<",">> \o NumberToString(data.longitude)

encodeGeolocation(data) ==
    IF data.altitude # UndefinedNumber
    THEN <<"g", "e", "o", ":">> \o NumberToString(data.latitude) \o <<",">> \o NumberToString(data.longitude)
         \o <<",">> \o NumberToString(data.altitude)
    ELSE <<"g", "e", "o", ":">> \o NumberToString(data.latitude) \o <<",">> \o NumberToString(data.longitude)

Latitudes == {Number(0), Number(377749), Number(-900000), Number(905000), Number(1),
              Number(-5000), NaNNumber}
Longitudes == {Number(0), Number(-1224194), Number(1800000), Number(70000), Number(-1800001)}
Altitudes == {UndefinedNumber, Number(0), Number(1000000), Number(-125000), NaNNumber}

GeolocationRecords == [latitude : Latitudes, longitude : Longitudes, altitude : Altitudes]

GeoIdle == geoData = [latitude |-> Number(0), longitude |-> Number(0),
                      altitude |-> UndefinedNumber]
           /\ geoOut = NoResult

CallEncodeGeolocation ==
    /\ geoOut = NoResult
    /\ geoOut' = encodeGeolocation(geoData)
    /\ UNCHANGED <<geoData, vcardData, vcardOut, emailData, emailOut, smsData, smsOut, notEnc>>

EncIdle == VCardIdle /\ EmailIdle /\ SmsIdle /\ GeoIdle

----------------------------------------------------------------------------
(* QRGeneratorPage: the page state *)

NoFile == [name |-> "", type |-> "", size |-> 0]
NullUrl == <<"<null>">>

InitialQRState ==
    [dataType |-> "text",
     content |-> <<>>,
     foregroundColor |-> <<"#", "0", "0", "0", "0", "0", "0">>,
     backgroundColor |-> <<"#", "f", "f", "f", "f", "f", "f">>,
     size |-> 256,
     margin |-> 4,
     errorCorrectionLevel |-> "M",
     shape |-> "square",
     dotStyle |-> "square",
     cornerSquareStyle |-> "square",
     cornerSquareColor |-> <<"#", "0", "0", "0", "0", "0", "0">>,
     cornerDotStyle |-> "square",
     cornerDotColor |-> <<"#", "0", "0", "0", "0", "0", "0">>,
     logo |-> NoFile,
     logoDataUrl |-> NullUrl,
     logoSize |-> 40,
     logoMargin |-> 4,
     hideBackgroundDots |-> TRUE,
     exportFormat |-> "png",
     isGenerating |-> FALSE,
     error |-> "null"]

\* setQRState(() => ({ ...initial, ...updates })): the fields not named go
\* back to their initial values
handleStateChangeFromInitial(prev, updates) ==
    [f \in DOMAIN prev \cup DOMAIN updates |->
        IF f \in DOMAIN updates THEN updates[f] ELSE InitialQRState[f]]

\* setQRState((prev) => ({ ...prev, ...updates }))
handleStateChange(prev, updates) ==
    [f \in DOMAIN prev \cup DOMAIN updates |->
        IF f \in DOMAIN updates THEN updates[f] ELSE prev[f]]

\* QRInputPanel.handleContentChange
handleContentChange(content) ==
    qrState' = handleStateChange(qrState, [content |-> content])

BrandingIdle == reads = {} /\ uploads = 0 /\ bpError = "null" /\ showWarning = FALSE

PageIdle == qrState = InitialQRState /\ BrandingIdle

----------------------------------------------------------------------------
(* VCardInput: the contact form *)

\* value || undefined
OrUndefined(s) == IF s = <<>> THEN Undefined ELSE s

\* The record VCardInput.updateContent hands to encodeVCard, from the field
\* values of the render the handler was created in.
VCardRecord(fields) ==
    [firstName |-> fields.firstName,
     lastName |-> fields.lastName,
     organization |-> OrUndefined(fields.organization),
     title |-> OrUndefined(fields.title),
     phone |-> OrUndefined(fields.phone),
     email |-> OrUndefined(fields.email),
     url |-> OrUndefined(fields.url),
     address |-> OrUndefined(fields.address),
     note |-> OrUndefined(fields.note)]

VCardFieldInputs(f) ==
    CASE f = "firstName" -> {<<>>, <<"J">>}
      [] f = "lastName" -> {<<>>, <<"D">>}
      [] f = "organization" -> {<<>>, <<"O">>}
      [] f = "title" -> {<<>>, <<"T">>}
      [] f = "phone" -> {<<>>, <<"+", "1", " ", "2">>}
      [] f = "email" -> {<<>>, <<"e">>}
      [] f = "url" -> {<<>>, <<"u">>}
      [] f = "address" -> {<<>>, <<"a">>}
      [] f = "note" -> {<<>>, <<"n">>}

\* An onValueChange handler of VCardInput: setX(value); updateContent().
\* updateContent reads the field values of the current render, value
\* reaches the field only with the next render.
VCardEdit(f, value) ==
    /\ qrState.dataType = "vcard"
    /\ value # vcFields[f]
    /\ vcError' = IF vcFields.firstName = <<>> \/ vcFields.lastName = <<>>
                  THEN "First name and last name are required" ELSE ""
    /\ handleContentChange(encodeVCard(VCardRecord(vcFields)))
    /\ vcFields' = [vcFields EXCEPT ![f] = value]
    /\ UNCHANGED <<wifiVars, phoneVars, calVars, cfVars, brandingVars, emcVars, encVars, ccVars, restVars>>

VCardFormIdle == vcFields = [f \in VCardFieldNames |-> <<>>] /\ vcError = ""

----------------------------------------------------------------------------
(* CalendarInput: the calendar form *)

\* A DateValue of the date picker (granularity minute), in January 2024;
\* NullDate is the cleared picker.
NullDate == [day |-> 0, hour |-> 0, minute |-> 0]

TimeZoneOffsets == {-300, 0, 60}

\* currentStartDate.toDate(userTimezone).toISOString()
DateValueToISO(dv, offset) ==
    toISOString((((dv.day - 1) * 24 + dv.hour) * 60 + dv.minute - offset) * MsPerMinute)

CalendarTitleInputs == {<<>>, <<"T">>}
CalendarLocationInputs == {<<>>, <<"L">>}
CalendarDescriptionInputs == {<<>>, <<"D">>}
CalendarDateInputs ==
    {NullDate} \cup [day : {10, 11}, hour : {0, 23}, minute : {30}]

\* CalendarInput.updateContent with the current values already merged.
CalendarUpdateContent(cur) ==
    IF cur.title = <<>> \/ cur.startDate = NullDate \/ cur.endDate = NullDate
    THEN /\ cfError' = "Title, start date, and end date are required"
         /\ UNCHANGED qrState
    ELSE LET startISO == DateValueToISO(cur.startDate, timeZoneOffset)
             endISO == DateValueToISO(cur.endDate, timeZoneOffset)
         IN /\ cfError' = IF DateParse(startISO) > DateParse(endISO)
                          THEN "End date must be after start date" ELSE ""
            /\ handleContentChange(
                 encodeCalendarEvent([title |-> cur.title,
                                      location |-> OrUndefined(cur.location),
                                      description |-> OrUndefined(cur.description),
                                      startDate |-> startISO,
                                      endDate |-> endISO,
                                      allDay |-> "false"]))

CalendarEdit(f, value) ==
    /\ qrState.dataType = "calendar"
    /\ value # cfFields[f]
    /\ cfFields' = [cfFields EXCEPT ![f] = value]
    /\ CalendarUpdateContent([cfFields EXCEPT ![f] = value])
    /\ UNCHANGED <<wifiVars, phoneVars, calVars, vcVars, timeZoneOffset, brandingVars, emcVars, encVars, ccVars, restVars>>

CalSetTitle(value) == CalendarEdit("title", value)
CalSetStartDate(value) == CalendarEdit("startDate", value)
CalSetEndDate(value) == CalendarEdit("endDate", value)
CalSetLocation(value) == CalendarEdit("location", value)
CalSetDescription(value) == CalendarEdit("description", value)

CalendarFormIdle ==
    /\ cfFields = [title |-> <<>>, location |-> <<>>, description |-> <<>>,
                   startDate |-> NullDate, endDate |-> NullDate]
    /\ cfError = ""
    /\ timeZoneOffset = 0

----------------------------------------------------------------------------
(* QRInputPanel, StyleConfigurator and BrandingPanel: the page's handlers *)

notPage == <<wifiVars, phoneVars, calVars, vcVars, cfVars, emcVars, encVars, ccVars, restVars>>

QRDataTypes == {"text", "url", "email", "phone", "wifi", "vcard", "calendar",
                "geolocation"}
ErrorCorrectionLevels == {"L", "M", "Q", "H"}
DataTypeInputs == {"text", "wifi"}
TextInputs == {<<>>, <<"h">>}

\* QRInputPanel.handleDataTypeChange
handleDataTypeChange(dataType) ==
    /\ qrState' = handleStateChange(qrState, [dataType |-> dataType, content |-> <<>>])
    /\ UNCHANGED <<brandingVars, notPage>>

\* TextInput onValueChange
TextInputChange(value) ==
    /\ qrState.dataType = "text"
    /\ value # qrState.content
    /\ handleContentChange(value)
    /\ UNCHANGED <<brandingVars, notPage>>

\* StyleConfigurator.handleErrorCorrectionChange
StyleErrorCorrectionChange(selected) ==
    /\ selected # qrState.errorCorrectionLevel
    /\ qrState' = handleStateChange(qrState, [errorCorrectionLevel |-> selected])
    /\ UNCHANGED <<brandingVars, notPage>>

SUPPORTED_LOGO_TYPES == {"image/png", "image/jpeg", "image/jpg", "image/svg+xml"}
MAX_LOGO_SIZE == 2 * 1024 * 1024

isValidLogoType(file) == file.type \in SUPPORTED_LOGO_TYPES
isValidLogoSize(file) == file.size <= MAX_LOGO_SIZE

\* the type test after the size test
validateLogoFileSizeFirst(file) ==
    IF ~isValidLogoSize(file)
    THEN [isValid |-> FALSE, error |-> "Logo file must be less than 2MB"]
    ELSE IF ~isValidLogoType(file)
    THEN [isValid |-> FALSE, error |-> "Please upload a PNG, JPG, or SVG file"]
    ELSE [isValid |-> TRUE, error |-> "undefined"]

validateLogoFile(file) ==
    IF ~isValidLogoType(file)
    THEN [isValid |-> FALSE, error |-> "Please upload a PNG, JPG, or SVG file"]
    ELSE IF ~isValidLogoSize(file)
    THEN [isValid |-> FALSE, error |-> "Logo file must be less than 2MB"]
    ELSE [isValid |-> TRUE, error |-> "undefined"]

LogoFiles ==
    {[name |-> "a.png", type |-> "image/png", size |-> 1000],
     [name |-> "b.svg", type |-> "image/svg+xml", size |-> MAX_LOGO_SIZE],
     [name |-> "c.gif", type |-> "image/gif", size |-> MAX_LOGO_SIZE + 1],
     [name |-> "d.jpg", type |-> "image/jpeg", size |-> MAX_LOGO_SIZE + 1]}

\* FileReader.readAsDataURL: reader.result for a file
DataUrl(file) == <<"data:", file.type, ";base64,", file.name>>

\* BrandingPanel.processFile, called by handleFileSelect and handleDrop; the
\* upload area is rendered only while there is no logoDataUrl.
processFile(file) ==
    /\ qrState.logoDataUrl = NullUrl
    /\ IF ~validateLogoFile(file).isValid
       THEN /\ bpError' = validateLogoFile(file).error
            /\ UNCHANGED <<reads, uploads>>
       ELSE /\ uploads < MaxUploads
            /\ bpError' = "null"
            /\ uploads' = uploads + 1
            /\ reads' = reads \cup
                 {[id |-> uploads + 1, file |-> file, stage |-> "BrandingPanel",
                   errorCorrectionLevel |-> qrState.errorCorrectionLevel]}
    /\ UNCHANGED <<qrState, showWarning, notPage>>

\* reader.onload of BrandingPanel.processFile: onLogoUpload(file), which is
\* QRInputPanel.handleLogoUpload and starts a second read, then
\* onErrorCorrectionChange("H") if the level seen by processFile was not H.
BrandingReaderLoad(r) ==
    /\ r.stage = "BrandingPanel"
    /\ reads' = (reads \ {r}) \cup {[r EXCEPT !.stage = "QRInputPanel"]}
    /\ qrState' = IF r.errorCorrectionLevel # "H"
                  THEN handleStateChange(qrState, [errorCorrectionLevel |-> "H"])
                  ELSE qrState
    /\ UNCHANGED <<uploads, bpError, showWarning, notPage>>

\* reader.onerror of BrandingPanel.processFile
BrandingReaderError(r) ==
    /\ r.stage = "BrandingPanel"
    /\ reads' = reads \ {r}
    /\ bpError' = "Failed to read file"
    /\ UNCHANGED <<qrState, uploads, showWarning, notPage>>

PanelReaderLoadKeepLevel(r) ==
    /\ r.stage = "QRInputPanel"
    /\ reads' = reads \ {r}
    /\ qrState' = handleStateChange(qrState,
                     [logo |-> r.file, logoDataUrl |-> DataUrl(r.file)])
    /\ UNCHANGED <<uploads, bpError, showWarning, notPage>>

\* reader.onload of QRInputPanel.handleLogoUpload
PanelReaderLoad(r) ==
    /\ r.stage = "QRInputPanel"
    /\ reads' = reads \ {r}
    /\ qrState' = handleStateChange(qrState,
                     [logo |-> r.file, logoDataUrl |-> DataUrl(r.file),
                      errorCorrectionLevel |-> "H"])
    /\ UNCHANGED <<uploads, bpError, showWarning, notPage>>

\* The read of QRInputPanel.handleLogoUpload fails: the reader has no
\* onerror handler, nothing is told to anyone.
PanelReaderError(r) ==
    /\ r.stage = "QRInputPanel"
    /\ reads' = reads \ {r}
    /\ UNCHANGED <<qrState, uploads, bpError, showWarning, notPage>>

\* BrandingPanel.handleRemoveLogo; the button is rendered while there is a
\* logoDataUrl.
handleRemoveLogo ==
    /\ qrState.logoDataUrl # NullUrl
    /\ qrState' = handleStateChange(qrState, [logo |-> NoFile, logoDataUrl |-> NullUrl])
    /\ bpError' = "null"
    /\ showWarning' = FALSE
    /\ UNCHANGED <<reads, uploads, notPage>>

\* The logo size slider: step 1 from minValue to maxValue.
LogoSliderMin == 10
LogoSliderMax == 50
LogoSizeInputs == {LogoSliderMin, 25, 31, LogoSliderMax}

\* BrandingPanel.handleLogoSizeChange; the slider is rendered while there is
\* a logoDataUrl.
handleLogoSizeChange(size) ==
    /\ qrState.logoDataUrl # NullUrl
    /\ size \in LogoSliderMin..LogoSliderMax
    /\ size # qrState.logoSize
    /\ qrState' = handleStateChange(qrState, [logoSize |-> size])
    /\ showWarning' = (size > 25)
    /\ UNCHANGED <<reads, uploads, bpError, notPage>>

\* QRCodeRenderer: const logoSizeRatio = logoSize / 100, as a fraction
logoSizeRatio(logoSize) == [num |-> logoSize, den |-> 100]

----------------------------------------------------------------------------
(* color-contrast.ts: luminance and contrast ratio                          *)
(*                                                                          *)
(* Numbers are fixed point: a channel's linear value is held in units of    *)
(* 1/100000, a luminance in units of 1/10000, and a contrast ratio as the   *)
(* fraction num/den of lighter + 0.05 over darker + 0.05.  A minRatio is    *)
(* held in tenths (45 is 4.5).                                              *)

HexDigitsLower == <<"0", "1", "2", "3", "4", "5", "6", "7", "8", "9", "a", "b", "c", "d", "e", "f">>
HexDigitsUpper == <<"0", "1", "2", "3", "4", "5", "6", "7", "8", "9", "A", "B", "C", "D", "E", "F">>
HexChars == {HexDigitsLower[i] : i \in 1..16} \cup {HexDigitsUpper[i] : i \in 1..16}

\* Number.parseInt(h, 16) of one hex digit
HexVal(ch) == CHOOSE v \in 0..15 : HexDigitsLower[v + 1] = ch \/ HexDigitsUpper[v + 1] = ch

\* n.toString(16).padStart(2, "0") for n in 0..255
Hex2(n) == <<HexDigitsLower[(n \div 16) + 1], HexDigitsLower[(n % 16) + 1]>>

NoRgb == [r |-> -1, g |-> -1, b |-> -1]

\* /^#?([a-f\d]{2})([a-f\d]{2})([a-f\d]{2})$/i
hexToRgb(hex) ==
    LET h == IF hex # <<>> /\ Head(hex) = "#" THEN Tail(hex) ELSE hex IN
    IF Len(h) = 6 /\ \A i \in 1..6 : h[i] \in HexChars
    THEN [r |-> HexVal(h[1]) * 16 + HexVal(h[2]),
          g |-> HexVal(h[3]) * 16 + HexVal(h[4]),
          b |-> HexVal(h[5]) * 16 + HexVal(h[6])]
    ELSE NoRgb

\* For a channel value c in 0..255, with s = c / 255:
\* s <= 0.03928 ? s / 12.92 : ((s + 0.055) / 1.055) ** 2.4, in units of 1/100000
LinearChannel == <<
    0, 30, 61, 91, 121, 152, 182, 212, 243, 273, 304, 335,
    368, 402, 439, 478, 518, 561, 605, 651, 700, 750, 802, 857,
    913, 972, 1033, 1096, 1161, 1229, 1298, 1370, 1444, 1521, 1600, 1681,
    1764, 1850, 1938, 2029, 2122, 2217, 2315, 2416, 2519, 2624, 2732, 2843,
    2956, 3071, 3190, 3310, 3434, 3560, 3689, 3820, 3955, 4092, 4231, 4374,
    4519, 4667, 4817, 4971, 5127, 5286, 5448, 5613, 5781, 5951, 6125, 6301,
    6480, 6663, 6848, 7036, 7227, 7421, 7619, 7819, 8022, 8228, 8438, 8650,
    8866, 9084, 9306, 9531, 9759, 9990, 10224, 10462, 10702, 10946, 11193, 11444,
    11697, 11954, 12214, 12477, 12744, 13014, 13287, 13563, 13843, 14126, 14413, 14703,
    14996, 15293, 15593, 15896, 16203, 16513, 16827, 17144, 17465, 17789, 18116, 18447,
    18782, 19120, 19462, 19807, 20156, 20508, 20864, 21223, 21586, 21953, 22323, 22697,
    23074, 23455, 23840, 24228, 24620, 25016, 25415, 25818, 26225, 26636, 27050, 27468,
    27889, 28315, 28744, 29177, 29614, 30054, 30499, 30947, 31399, 31855, 32314, 32778,
    33245, 33716, 34191, 34670, 35153, 35640, 36131, 36625, 37124, 37626, 38133, 38643,
    39157, 39676, 40198, 40724, 41254, 41789, 42327, 42869, 43415, 43966, 44520, 45079,
    45641, 46208, 46778, 47353, 47932, 48515, 49102, 49693, 50289, 50888, 51492, 52100,
    52712, 53328, 53948, 54572, 55201, 55834, 56471, 57112, 57758, 58408, 59062, 59720,
    60383, 61050, 61721, 62396, 63076, 63760, 64448, 65141, 65837, 66539, 67244, 67954,
    68669, 69387, 70110, 70838, 71569, 72306, 73046, 73791, 74540, 75294, 76052, 76815,
    77582, 78354, 79130, 79910, 80695, 81485, 82279, 83077, 83880, 84687, 85499, 86316,
    87137, 87962, 88792, 89627, 90466, 91310, 92158, 93011, 93869, 94731, 95597, 96469,
    97345, 98225, 99110, 100000>>

getLuminanceMalformedWhite(hex) ==
    IF hexToRgb(hex) = NoRgb THEN 10000
    ELSE (2126 * LinearChannel[hexToRgb(hex).r + 1]
          + 7152 * LinearChannel[hexToRgb(hex).g + 1]
          + 722 * LinearChannel[hexToRgb(hex).b + 1]) \div 100000

getLuminance(hex) ==
    IF hexToRgb(hex) = NoRgb THEN 0
    ELSE (2126 * LinearChannel[hexToRgb(hex).r + 1]
          + 7152 * LinearChannel[hexToRgb(hex).g + 1]
          + 722 * LinearChannel[hexToRgb(hex).b + 1]) \div 100000

Max(a, b) == IF a >= b THEN a ELSE b
Min(a, b) == IF a <= b THEN a ELSE b

getContrastRatioUnordered(color1, color2) ==
    [num |-> getLuminance(color1) + 500,
     den |-> getLuminance(color2) + 500]

\* (lighter + 0.05) / (darker + 0.05)
getContrastRatio(color1, color2) ==
    [num |-> Max(getLuminance(color1), getLuminance(color2)) + 500,
     den |-> Min(getLuminance(color1), getLuminance(color2)) + 500]

\* ratio < minRatio, minRatio in tenths
RatioBelow(ratio, minRatio) == ratio.num * 10 < minRatio * ratio.den

\* ratio1 < ratio2
RatioLess(ratio1, ratio2) == ratio1.num * ratio2.den < ratio2.num * ratio1.den

----------------------------------------------------------------------------
(* ensureMinimumContrast *)

maxAttempts == 100
step == 10

Lighten(rgb) ==
    <<"#">> \o Hex2(Min(255, rgb.r + step)) \o Hex2(Min(255, rgb.g + step))
    \o Hex2(Min(255, rgb.b + step))

Darken(rgb) ==
    <<"#">> \o Hex2(Max(0, rgb.r - step)) \o Hex2(Max(0, rgb.g - step))
    \o Hex2(Max(0, rgb.b - step))

\* refLuminance < 0.5
shouldLighten(referenceColor) == getLuminance(referenceColor) < 5000

\* minRatio = 4.5: the value of the parameter when the caller leaves it out.
MinRatioLeftOut == 0
EmcMinRatio == IF emcArgs.minRatio = MinRatioLeftOut THEN 45 ELSE emcArgs.minRatio

EmcEnterNormalised ==
    /\ emcPc = "called"
    /\ IF ~RatioBelow(getContrastRatio(emcArgs.colorToAdjust, emcArgs.referenceColor),
                      EmcMinRatio)
          \/ hexToRgb(emcArgs.colorToAdjust) = NoRgb
       THEN /\ emcResult' = IF hexToRgb(emcArgs.colorToAdjust) = NoRgb
                             THEN emcArgs.colorToAdjust
                             ELSE <<"#">> \o Hex2(hexToRgb(emcArgs.colorToAdjust).r)
                                  \o Hex2(hexToRgb(emcArgs.colorToAdjust).g)
                                  \o Hex2(hexToRgb(emcArgs.colorToAdjust).b)
            /\ emcPc' = "done"
            /\ UNCHANGED <<emcAdjusted, emcAttempts>>
       ELSE /\ emcAdjusted' = emcArgs.colorToAdjust
            /\ emcAttempts' = 0
            /\ emcPc' = "loop"
            /\ UNCHANGED emcResult
    /\ emcVisited' = {emcArgs.colorToAdjust}
    /\ UNCHANGED <<emcArgs, wifiVars, phoneVars, calVars, vcVars, cfVars, pageVars, encVars, ccVars, restVars>>

\* Entry of ensureMinimumContrast up to the loop: the two early returns, or
\* adjustedColor = colorToAdjust and attempts = 0.
EmcEnter ==
    /\ emcPc = "called"
    /\ IF ~RatioBelow(getContrastRatio(emcArgs.colorToAdjust, emcArgs.referenceColor),
                      EmcMinRatio)
          \/ hexToRgb(emcArgs.colorToAdjust) = NoRgb
       THEN /\ emcResult' = emcArgs.colorToAdjust
            /\ emcPc' = "done"
            /\ UNCHANGED <<emcAdjusted, emcAttempts>>
       ELSE /\ emcAdjusted' = emcArgs.colorToAdjust
            /\ emcAttempts' = 0
            /\ emcPc' = "loop"
            /\ UNCHANGED emcResult
    /\ emcVisited' = {emcArgs.colorToAdjust}
    /\ UNCHANGED <<emcArgs, wifiVars, phoneVars, calVars, vcVars, cfVars, pageVars, encVars, ccVars, restVars>>

\* the direction decided anew in each iteration, from adjustedColor
EmcLoopStepRedirect ==
    /\ emcPc = "loop"
    /\ RatioBelow(getContrastRatio(emcAdjusted, emcArgs.referenceColor), EmcMinRatio)
    /\ emcAttempts < maxAttempts
    /\ IF hexToRgb(emcAdjusted) = NoRgb
       THEN /\ emcResult' = emcAdjusted
            /\ emcPc' = "done"
            /\ UNCHANGED <<emcAdjusted, emcAttempts, emcVisited>>
       ELSE /\ emcAdjusted' = IF shouldLighten(emcAdjusted)
                              THEN Lighten(hexToRgb(emcAdjusted))
                              ELSE Darken(hexToRgb(emcAdjusted))
            /\ emcAttempts' = emcAttempts + 1
            /\ emcVisited' = emcVisited \cup {emcAdjusted'}
            /\ UNCHANGED <<emcResult, emcPc>>
    /\ UNCHANGED <<emcArgs, wifiVars, phoneVars, calVars, vcVars, cfVars, pageVars, encVars, ccVars, restVars>>

\* One iteration of the while loop.
EmcLoopStep ==
    /\ emcPc = "loop"
    /\ RatioBelow(getContrastRatio(emcAdjusted, emcArgs.referenceColor), EmcMinRatio)
    /\ emcAttempts < maxAttempts
    /\ IF hexToRgb(emcAdjusted) = NoRgb
       THEN /\ emcResult' = emcAdjusted
            /\ emcPc' = "done"
            /\ UNCHANGED <<emcAdjusted, emcAttempts, emcVisited>>
       ELSE /\ emcAdjusted' = IF shouldLighten(emcArgs.referenceColor)
                              THEN Lighten(hexToRgb(emcAdjusted))
                              ELSE Darken(hexToRgb(emcAdjusted))
            /\ emcAttempts' = emcAttempts + 1
            /\ emcVisited' = emcVisited \cup {emcAdjusted'}
            /\ UNCHANGED <<emcResult, emcPc>>
    /\ UNCHANGED <<emcArgs, wifiVars, phoneVars, calVars, vcVars, cfVars, pageVars, encVars, ccVars, restVars>>

\* The loop condition fails: return adjustedColor.
EmcReturn ==
    /\ emcPc = "loop"
    /\ ~(RatioBelow(getContrastRatio(emcAdjusted, emcArgs.referenceColor), EmcMinRatio)
         /\ emcAttempts < maxAttempts)
    /\ emcResult' = emcAdjusted
    /\ emcPc' = "done"
    /\ UNCHANGED <<emcArgs, emcAdjusted, emcAttempts, emcVisited>>
    /\ UNCHANGED <<wifiVars, phoneVars, calVars, vcVars, cfVars, pageVars, encVars, ccVars, restVars>>

SampleColors == {<<"#", "4", "4", "4", "4", "4", "4">>, <<"#", "0", "0", "0", "0", "0", "0">>, <<"#", "f", "f", "f", "f", "f", "f">>, <<"#", "F", "F", "0", "0", "0", "0">>, <<"#", "7", "7", "7", "7", "7", "7">>,
                 <<"8", "0", "8", "0", "8", "0">>, <<"#", "0", "0", "0", "0", "f", "f">>, <<"a", "b", "c">>}
SampleReferences == {<<"#", "a", "a", "a", "a", "a", "a">>, <<"#", "0", "0", "0", "0", "0", "0">>, <<"#", "f", "f", "f", "f", "f", "f">>, <<"#", "8", "0", "8", "0", "8", "0">>,
                     <<"#", "1", "a", "1", "a", "1", "a">>, <<>>}
SampleMinRatios == {MinRatioLeftOut, 30, 45, 70}

EmcIdle ==
    /\ emcArgs = [colorToAdjust |-> <<>>, referenceColor |-> <<>>, minRatio |-> 45]
    /\ emcPc = "idle"
    /\ emcAdjusted = <<>> /\ emcAttempts = 0 /\ emcResult = NoResult
    /\ emcVisited = {}

----------------------------------------------------------------------------
(* checkContrastLevel *)

NoWarning == "undefined"
LowContrastWarning == "Contrast is low. QR code may be difficult to scan in poor lighting."
PoorContrastWarning == "Contrast is too low! QR code may not scan reliably. Choose more contrasting colors."

checkContrastLevelForegroundDarker(foreground, background) ==
    LET ratio == [num |-> getLuminance(background) + 500,
                  den |-> getLuminance(foreground) + 500]
    IN
    IF ~RatioBelow(ratio, 70)
    THEN [ratio |-> ratio, level |-> "excellent", isScannable |-> TRUE, warning |-> NoWarning]
    ELSE IF ~RatioBelow(ratio, 45)
    THEN [ratio |-> ratio, level |-> "good", isScannable |-> TRUE, warning |-> NoWarning]
    ELSE IF ~RatioBelow(ratio, 30)
    THEN [ratio |-> ratio, level |-> "fair", isScannable |-> TRUE,
          warning |-> LowContrastWarning]
    ELSE [ratio |-> ratio, level |-> "poor", isScannable |-> FALSE,
          warning |-> PoorContrastWarning]

checkContrastLevelGoodFromFour(foreground, background) ==
    LET ratio == getContrastRatio(foreground, background) IN
    IF ~RatioBelow(ratio, 70)
    THEN [ratio |-> ratio, level |-> "excellent", isScannable |-> TRUE, warning |-> NoWarning]
    ELSE IF ~RatioBelow(ratio, 40)
    THEN [ratio |-> ratio, level |-> "good", isScannable |-> TRUE, warning |-> NoWarning]
    ELSE IF ~RatioBelow(ratio, 30)
    THEN [ratio |-> ratio, level |-> "fair", isScannable |-> TRUE,
          warning |-> LowContrastWarning]
    ELSE [ratio |-> ratio, level |-> "poor", isScannable |-> FALSE,
          warning |-> PoorContrastWarning]

checkContrastLevel(foreground, background) ==
    LET ratio == getContrastRatio(foreground, background) IN
    IF ~RatioBelow(ratio, 70)
    THEN [ratio |-> ratio, level |-> "excellent", isScannable |-> TRUE, warning |-> NoWarning]
    ELSE IF ~RatioBelow(ratio, 45)
    THEN [ratio |-> ratio, level |-> "good", isScannable |-> TRUE, warning |-> NoWarning]
    ELSE IF ~RatioBelow(ratio, 30)
    THEN [ratio |-> ratio, level |-> "fair", isScannable |-> TRUE,
          warning |-> LowContrastWarning]
    ELSE [ratio |-> ratio, level |-> "poor", isScannable |-> FALSE,
          warning |-> PoorContrastWarning]

WellFormedColors ==
    {<<"#", "0", "0", "0", "0", "0", "0">>, <<"#", "F", "F", "F", "F", "F", "F">>, <<"#", "f", "f", "f", "f", "f", "f">>, <<"5", "9", "5", "9", "5", "9">>, <<"#", "5", "A", "5", "A", "5", "A">>, <<"#", "7", "6", "7", "6", "7", "6">>,
     <<"#", "7", "7", "7", "7", "7", "7">>, <<"#", "9", "4", "9", "4", "9", "4">>, <<"#", "9", "5", "9", "5", "9", "5">>, <<"#", "F", "F", "0", "0", "0", "0">>, <<"#", "0", "0", "0", "0", "F", "F">>}

MalformedColors == {<<>>, <<"#", "f", "f", "f">>, <<"#", "g", "g", "g", "g", "g", "g">>, <<"#", "1", "2", "3", "4", "5", "6", "7">>, <<"#", "f", "f", "f", "f", "f", "f", "\n">>}

CheckColors == WellFormedColors \cup MalformedColors

NoCheck == [ratio |-> [num |-> 0, den |-> 1], level |-> "", isScannable |-> FALSE,
            warning |-> NoWarning]

CheckIdle == ccArgs = [foreground |-> <<>>, background |-> <<>>] /\ ccOut = NoCheck

notCc == <<wifiVars, phoneVars, calVars, vcVars, cfVars, pageVars, emcVars, encVars, restVars>>

CallCheckContrastLevel ==
    /\ ccOut = NoCheck
    /\ ccOut' = checkContrastLevel(ccArgs.foreground, ccArgs.background)
    /\ UNCHANGED <<ccArgs, gccVars, notCc>>

----------------------------------------------------------------------------
(* generateContrastingColors *)

\* The colours a run of generateRandomColorWithLuminance can draw: # and six
\* of the letters 0123456789ABCDEF.
RandomColors ==
    {<<"#", "0", "0", "0", "0", "0", "0">>, <<"#", "F", "F", "F", "F", "F", "F">>, <<"#", "5", "9", "5", "9", "5", "9">>, <<"#", "5", "A", "5", "A", "5", "A">>, <<"#", "B", "B", "B", "B", "B", "B">>, <<"#", "B", "C", "B", "C", "B", "C">>,
     <<"#", "F", "F", "0", "0", "0", "0">>, <<"#", "0", "0", "F", "F", "0", "0">>, <<"#", "0", "0", "0", "0", "F", "F">>, <<"#", "F", "F", "F", "F", "0", "0">>}

\* const foregroundLight = Math.random() > 0.5
GccStart(foregroundLight) ==
    /\ gccPc = "called"
    /\ gccForegroundLight' = foregroundLight
    /\ gccPc' = "background"
    /\ UNCHANGED <<gccForeground, gccBackground, grcColor, ccArgs, ccOut, notCc>>

\* The targetLuminance of the call of generateRandomColorWithLuminance that
\* is running: the background is drawn first, the foreground second.
targetLuminance ==
    IF gccPc = "background"
    THEN (IF gccForegroundLight = "true" THEN "dark" ELSE "light")
    ELSE (IF gccForegroundLight = "true" THEN "light" ELSE "dark")

\* One iteration of the do-while of generateRandomColorWithLuminance: draw a
\* colour, repeat if its luminance is on the wrong side of 0.5, return it
\* otherwise.
GrcDraw(color) ==
    /\ gccPc \in {"background", "foreground"}
    /\ grcColor' = color
    /\ IF \/ (targetLuminance = "light" /\ getLuminance(color) < 5000)
          \/ (targetLuminance = "dark" /\ getLuminance(color) > 5000)
       THEN UNCHANGED <<gccPc, gccForeground, gccBackground>>
       ELSE IF gccPc = "background"
            THEN /\ gccBackground' = color
                 /\ gccPc' = "foreground"
                 /\ UNCHANGED gccForeground
            ELSE /\ gccForeground' = color
                 /\ gccPc' = "ratio"
                 /\ UNCHANGED gccBackground
    /\ UNCHANGED <<gccForegroundLight, ccArgs, ccOut, notCc>>

GccCheckRatioGood ==
    /\ gccPc = "ratio"
    /\ gccPc' = IF RatioBelow(getContrastRatio(gccForeground, gccBackground), 45)
                THEN "background" ELSE "done"
    /\ UNCHANGED <<gccForegroundLight, gccForeground, gccBackground, grcColor,
                   ccArgs, ccOut, notCc>>

\* ratio = getContrastRatio(foreground, background); while (ratio < 7)
GccCheckRatio ==
    /\ gccPc = "ratio"
    /\ gccPc' = IF RatioBelow(getContrastRatio(gccForeground, gccBackground), 70)
                THEN "background" ELSE "done"
    /\ UNCHANGED <<gccForegroundLight, gccForeground, gccBackground, grcColor,
                   ccArgs, ccOut, notCc>>

GccIdle == /\ gccPc = "idle" /\ gccForegroundLight = "undefined"
           /\ gccForeground = Undefined /\ gccBackground = Undefined /\ grcColor = Undefined

CcIdle == CheckIdle /\ GccIdle

----------------------------------------------------------------------------
(* The validators of color-contrast.ts                                      *)

MaxDialLen == 8

NoVerdict == "none"
Verdict(b) == IF b THEN "true" ELSE "false"

\* Characters String.prototype.trim removes (a sample of WhiteSpace and
\* LineTerminator).
WhiteSpace == {" ", "\t", "\n", "\r"}

\* phone.trim() === ""
TrimIsEmpty(str) == \A i \in 1..Len(str) : str[i] \in WhiteSpace

\* /^\+?\d{7,}$/.test(str)
PhoneRegexTest(str) ==
    LET rest == IF str # <<>> /\ Head(str) = "+" THEN Tail(str) ELSE str
    IN /\ Len(rest) >= 7
       /\ \A i \in 1..Len(rest) : rest[i] \in Digits

\* at least seven digits, the "+" wherever it stands
isValidPhonePlusAnywhere(phone) ==
    IF phone = <<>> \/ TrimIsEmpty(phone) THEN FALSE
    ELSE Len(SelectSeq(CleanNumber(phone), LAMBDA ch : ch \in Digits)) >= 7

isValidPhone(phone) ==
    IF phone = <<>> \/ TrimIsEmpty(phone) THEN FALSE
    ELSE PhoneRegexTest(CleanNumber(phone))

DialAlphabet == {"+", "5", " "}

CallIsValidPhone ==
    /\ valPhoneOut = NoVerdict
    /\ valPhoneOut' = Verdict(isValidPhone(valPhone))
    /\ UNCHANGED <<valPhone, valNumber, valLatOut, valLngOut, valFile, valFileOut, notVal>>

PosInfinity == [kind |-> "Infinity", e4 |-> 0]
NegInfinity == [kind |-> "-Infinity", e4 |-> 0]

\* a <= b on numbers: false when either side is NaN
NumberLessEq(a, b) ==
    /\ a.kind # "NaN" /\ b.kind # "NaN"
    /\ \/ a.kind = "-Infinity"
       \/ b.kind = "Infinity"
       \/ a.kind = "number" /\ b.kind = "number" /\ a.e4 <= b.e4

isValidLatitude(lat) ==
    lat.kind # "NaN" /\ NumberLessEq(Number(-900000), lat) /\ NumberLessEq(lat, Number(900000))

\* lng < 180 in place of lng <= 180
isValidLongitudeExclusive(lng) ==
    /\ lng.kind # "NaN" /\ NumberLessEq(Number(-1800000), lng)
    /\ NumberLessEq(lng, Number(1800000)) /\ lng # Number(1800000)

isValidLongitude(lng) ==
    lng.kind # "NaN" /\ NumberLessEq(Number(-1800000), lng) /\ NumberLessEq(lng, Number(1800000))

Coordinates ==
    {Number(c + d) : c \in {-1800000, -900000, 0, 900000, 1800000}, d \in -12..12}
    \cup {NaNNumber, PosInfinity, NegInfinity}

CallIsValidLatitude ==
    /\ valLatOut = NoVerdict
    /\ valLatOut' = Verdict(isValidLatitude(valNumber))
    /\ UNCHANGED <<valPhone, valPhoneOut, valNumber, valLngOut, valFile, valFileOut, notVal>>

CallIsValidLongitude ==
    /\ valLngOut = NoVerdict
    /\ valLngOut' = Verdict(isValidLongitude(valNumber))
    /\ UNCHANGED <<valPhone, valPhoneOut, valNumber, valLatOut, valFile, valFileOut, notVal>>

NoValidation == [isValid |-> FALSE, error |-> "none"]

LogoTypes == SUPPORTED_LOGO_TYPES \cup {"image/gif", "image/webp", "application/pdf", ""}
LogoSizes == {0, 1, 1000, MAX_LOGO_SIZE - 1, MAX_LOGO_SIZE, MAX_LOGO_SIZE + 1,
              2 * MAX_LOGO_SIZE, 100 * MAX_LOGO_SIZE}
ValidatedFiles == [name : {"logo"}, type : LogoTypes, size : LogoSizes]

CallValidateLogoFile ==
    /\ valFileOut = NoValidation
    /\ valFileOut' = validateLogoFile(valFile)
    /\ UNCHANGED <<valPhone, valPhoneOut, valNumber, valLatOut, valLngOut, valFile, notVal>>

PhoneValIdle == valPhone = <<>> /\ valPhoneOut = NoVerdict
CoordValIdle == valNumber = Number(0) /\ valLatOut = NoVerdict /\ valLngOut = NoVerdict
FileValIdle == valFile = NoFile /\ valFileOut = NoValidation
ValIdle == PhoneValIdle /\ CoordValIdle /\ FileValIdle

----------------------------------------------------------------------------
(* QRPreviewCanvas and the QRCodeRenderer it renders                        *)
(*                                                                          *)
(* Of the props only content, margin and shape are kept.  The library's    *)
(* QRCodeStyling instance is the record of the options it was built with,  *)
(* data replaced by update(); building or updating throws for a content    *)
(* that does not fit a QR code.                                             *)

NoInstance == [data |-> <<"<null>">>, margin |-> 0, shape |-> "null"]
TooLong == <<"<too long>">>
Renderable(content) == content # TooLong

PreviewContents == {<<>>, <<" ">>, <<"a">>, <<"b">>, TooLong}
PreviewMargins == {0, 4}
PreviewShapes == {"square", "circle"}
PreviewProps == [content : PreviewContents, margin : PreviewMargins, shape : PreviewShapes]

\* !content || content.trim() === ""
ContentIsBlank(content) == content = <<>> \/ TrimIsEmpty(content)

\* QRPreviewCanvas re-renders with a new debouncedState.  Effects of the
\* previous commit have run by then.  The renderer's effect is a child's and
\* runs before the loading effect of QRPreviewCanvas.
PreviewRender(props) ==
    /\ effects = <<>>
    /\ props # debouncedState
    /\ debouncedState' = props
    /\ effects' = (IF rendererMounted THEN <<"render">> ELSE <<>>)
                  \o (IF props.content # debouncedState.content THEN <<"loading">> ELSE <<>>)
    /\ renderOutcome' = IF rendererMounted THEN "pending" ELSE renderOutcome
    /\ UNCHANGED <<isLoading, error, rendererMounted, qrRef, prevMarginRef, prevShapeRef, notPreview>>

\* QRCodeRenderer: the instance the effect works with after the
\* margin-or-shape test.
AfterRecreateTest ==
    IF (prevMarginRef # debouncedState.margin \/ prevShapeRef # debouncedState.shape)
       /\ qrRef # NoInstance
    THEN NoInstance ELSE qrRef

\* QRCodeRenderer: the render effect, with handleRenderComplete and
\* handleRenderError of QRPreviewCanvas.  An error makes QRPreviewCanvas
\* render without the QRCodeRenderer, whose refs go with it.
RenderEffect ==
    /\ effects # <<>> /\ Head(effects) = "render"
    /\ effects' = Tail(effects)
    /\ IF ContentIsBlank(debouncedState.content)
       THEN /\ renderOutcome' = "skipped"
            /\ UNCHANGED <<isLoading, error, rendererMounted, qrRef, prevMarginRef, prevShapeRef>>
       ELSE /\ IF (prevMarginRef # debouncedState.margin \/ prevShapeRef # debouncedState.shape)
                  /\ qrRef # NoInstance
               THEN /\ prevMarginRef' = debouncedState.margin
                    /\ prevShapeRef' = debouncedState.shape
               ELSE UNCHANGED <<prevMarginRef, prevShapeRef>>
            /\ IF Renderable(debouncedState.content)
               THEN /\ qrRef' = IF AfterRecreateTest = NoInstance
                                THEN [data |-> debouncedState.content,
                                      margin |-> debouncedState.margin,
                                      shape |-> debouncedState.shape]
                                ELSE [qrRef EXCEPT !.data = debouncedState.content]
                    /\ isLoading' = FALSE
                    /\ error' = "null"
                    /\ renderOutcome' = "complete"
                    /\ UNCHANGED rendererMounted
               ELSE /\ isLoading' = FALSE
                    /\ error' = "code length overflow"
                    /\ renderOutcome' = "error"
                    /\ rendererMounted' = FALSE
                    /\ qrRef' = NoInstance
    /\ UNCHANGED <<debouncedState, notPreview>>

\* QRPreviewCanvas: the effect on debouncedState.content
LoadingEffect ==
    /\ effects # <<>> /\ Head(effects) = "loading"
    /\ effects' = Tail(effects)
    /\ isLoading' = IF debouncedState.content # <<>> THEN TRUE ELSE isLoading
    /\ UNCHANGED <<debouncedState, error, rendererMounted, qrRef, prevMarginRef, prevShapeRef,
                   renderOutcome, notPreview>>

PreviewIdle ==
    /\ debouncedState = [content |-> <<>>, margin |-> 0, shape |-> "square"]
    /\ isLoading = FALSE /\ error = "null" /\ rendererMounted = FALSE
    /\ qrRef = NoInstance /\ prevMarginRef = 0 /\ prevShapeRef = "square"
    /\ effects = <<>> /\ renderOutcome = "none"


----------------------------------------------------------------------------
(* useDebounce, as QRPreviewCanvas calls it: useDebounce(state, 300)        *)
(*                                                                          *)
(* Time is counted in units of 100 ms.  Of the state only content and      *)
(* margin are kept.                                                         *)

DebounceDelay == 3

DebounceValues == [content : {<<>>, <<"a">>, <<"b">>}, margin : {0, 4}]

\* the effect without its cleanup
ValueChangeKeepsTimer(v) ==
    /\ v # inputValue
    /\ inputValue' = v
    /\ timers' = timers \cup {[value |-> v, remaining |-> DebounceDelay]}
    /\ valueAge' = 0
    /\ UNCHANGED <<debouncedValue, notDebounce>>

\* A render with a new inputValue: the cleanup of the previous effect clears its
\* timeout, the effect sets a new one.
ValueChange(v) ==
    /\ v # inputValue
    /\ inputValue' = v
    /\ timers' = {[value |-> v, remaining |-> DebounceDelay]}
    /\ valueAge' = 0
    /\ UNCHANGED <<debouncedValue, notDebounce>>

\* 100 ms pass; a timeout that is due runs before more time passes.
DebounceTick ==
    /\ \A t \in timers : t.remaining > 0
    /\ timers' = {[t EXCEPT !.remaining = t.remaining - 1] : t \in timers}
    /\ valueAge' = IF valueAge < DebounceDelay THEN valueAge + 1 ELSE valueAge
    /\ UNCHANGED <<inputValue, debouncedValue, notDebounce>>

\* The timeout's callback: setDebouncedValue(inputValue), inputValue that of the
\* render that set the timeout.
TimeoutRuns ==
    \E t \in timers :
        /\ t.remaining = 0
        /\ debouncedValue' = t.value
        /\ timers' = timers \ {t}
        /\ UNCHANGED <<inputValue, valueAge, notDebounce>>

DebounceIdle ==
    /\ inputValue = [content |-> <<>>, margin |-> 0]
    /\ debouncedValue = [content |-> <<>>, margin |-> 0]
    /\ timers = {} /\ valueAge = 0

RestIdle == ValIdle /\ PreviewIdle /\ DebounceIdle

----------------------------------------------------------------------------
(* Specifications *)

InitWiFi == /\ wifiCred \in WiFiCredentials
            /\ wifiOut = NoResult
            /\ PhoneIdle /\ CalIdle /\ VCardFormIdle /\ CalendarFormIdle /\ PageIdle /\ EmcIdle
            /\ EncIdle /\ CcIdle
            /\ RestIdle
NextWiFi == CallEncodeWiFi
SpecWiFi == InitWiFi /\ [][NextWiFi]_vars

InitPhone == /\ phoneIn \in StrUpTo(PhoneAlphabet, MaxPhoneLen)
             /\ phoneOut = NoResult
             /\ EmcIdle /\ WiFiIdle /\ CalIdle /\ VCardFormIdle /\ CalendarFormIdle /\ PageIdle
             /\ EncIdle /\ CcIdle
             /\ RestIdle
NextPhone == CallEncodePhone
SpecPhone == InitPhone /\ [][NextPhone]_vars

InitCalendar == /\ calEvent \in CalendarEvents
                /\ calOut = NoResult
                /\ EmcIdle /\ WiFiIdle /\ PhoneIdle /\ VCardFormIdle /\ CalendarFormIdle /\ PageIdle
                /\ EncIdle /\ CcIdle
                /\ RestIdle
NextCalendar == CallEncodeCalendarEvent
SpecCalendar == InitCalendar /\ [][NextCalendar]_vars

InitVCardForm == /\ vcFields = [f \in VCardFieldNames |-> <<>>]
                 /\ vcError = ""
                 /\ qrState = [InitialQRState EXCEPT !.dataType = "vcard"]
                 /\ BrandingIdle
                 /\ EmcIdle /\ WiFiIdle /\ PhoneIdle /\ CalIdle /\ CalendarFormIdle
                 /\ EncIdle /\ CcIdle
                 /\ RestIdle
NextVCardForm == \E f \in VCardFieldNames : \E v \in VCardFieldInputs(f) : VCardEdit(f, v)
SpecVCardForm == InitVCardForm /\ [][NextVCardForm]_vars

InitCalendarForm == /\ cfFields = [title |-> <<>>, location |-> <<>>, description |-> <<>>,
                                    startDate |-> NullDate, endDate |-> NullDate]
                    /\ cfError = ""
                    /\ timeZoneOffset \in TimeZoneOffsets
                    /\ qrState = [InitialQRState EXCEPT !.dataType = "calendar"]
                    /\ BrandingIdle
                    /\ EmcIdle /\ WiFiIdle /\ PhoneIdle /\ CalIdle /\ VCardFormIdle
                    /\ EncIdle /\ CcIdle
                    /\ RestIdle
NextCalendarForm ==
    \/ \E v \in CalendarTitleInputs : CalSetTitle(v)
    \/ \E v \in CalendarDateInputs : CalSetStartDate(v)
    \/ \E v \in CalendarDateInputs : CalSetEndDate(v)
    \/ \E v \in CalendarLocationInputs : CalSetLocation(v)
    \/ \E v \in CalendarDescriptionInputs : CalSetDescription(v)
SpecCalendarForm == InitCalendarForm /\ [][NextCalendarForm]_vars

InitPage == /\ PageIdle
            /\ EmcIdle /\ WiFiIdle /\ PhoneIdle /\ CalIdle /\ VCardFormIdle /\ CalendarFormIdle
            /\ EncIdle /\ CcIdle
            /\ RestIdle
NextPage ==
    \/ \E t \in DataTypeInputs : handleDataTypeChange(t)
    \/ \E c \in TextInputs : TextInputChange(c)
    \/ \E l \in ErrorCorrectionLevels : StyleErrorCorrectionChange(l)
    \/ \E f \in LogoFiles : processFile(f)
    \/ \E r \in reads : BrandingReaderLoad(r)
    \/ \E r \in reads : BrandingReaderError(r)
    \/ \E r \in reads : PanelReaderLoad(r)
    \/ \E r \in reads : PanelReaderError(r)
    \/ handleRemoveLogo
    \/ \E n \in LogoSizeInputs : handleLogoSizeChange(n)
SpecPage == InitPage /\ [][NextPage]_vars

InitContrast == /\ emcArgs \in [colorToAdjust : SampleColors,
                              referenceColor : SampleReferences,
                              minRatio : SampleMinRatios]
                /\ emcPc = "called"
                /\ emcAdjusted = <<>> /\ emcAttempts = 0 /\ emcResult = NoResult
                /\ emcVisited = {}
                /\ WiFiIdle /\ PhoneIdle /\ CalIdle /\ VCardFormIdle /\ CalendarFormIdle
                /\ PageIdle
                /\ EncIdle /\ CcIdle
                /\ RestIdle
NextContrast == EmcEnter \/ EmcLoopStep \/ EmcReturn
SpecContrast == InitContrast /\ [][NextContrast]_vars

InitVCard == /\ vcardData \in VCardRecords
             /\ vcardOut = NoResult
             /\ EmailIdle /\ SmsIdle /\ GeoIdle /\ CcIdle
             /\ EmcIdle /\ WiFiIdle /\ PhoneIdle /\ CalIdle /\ VCardFormIdle /\ CalendarFormIdle /\ PageIdle
             /\ RestIdle
NextVCard == CallEncodeVCard
SpecVCard == InitVCard /\ [][NextVCard]_vars

InitEmail == /\ emailData \in EmailRecords
             /\ emailOut = NoResult
             /\ VCardIdle /\ SmsIdle /\ GeoIdle /\ CcIdle
             /\ EmcIdle /\ WiFiIdle /\ PhoneIdle /\ CalIdle /\ VCardFormIdle /\ CalendarFormIdle /\ PageIdle
             /\ RestIdle
NextEmail == CallEncodeEmail
SpecEmail == InitEmail /\ [][NextEmail]_vars

\* One phone number handed to encodePhone, encodeSMS and encodeVCard.
InitPhoneStrip == /\ phoneIn \in StrUpTo(PhoneAlphabet, MaxPhoneLen)
                  /\ phoneOut = NoResult
                  /\ smsData \in [phone : {phoneIn}, message : SmsMessages]
                  /\ smsOut = NoResult
                  /\ vcardData \in [firstName : {<<"J">>}, lastName : {<<"D">>},
                                    organization : {Undefined, <<"O">>}, title : {Undefined},
                                    phone : {phoneIn}, email : {Undefined},
                                    url : {Undefined}, address : {Undefined},
                                    note : {Undefined}]
                  /\ vcardOut = NoResult
                  /\ EmailIdle /\ GeoIdle /\ CcIdle
                  /\ EmcIdle /\ WiFiIdle /\ CalIdle /\ VCardFormIdle /\ CalendarFormIdle /\ PageIdle
                  /\ RestIdle
NextPhoneStrip == CallEncodePhone \/ CallEncodeSMS \/ CallEncodeVCard
SpecPhoneStrip == InitPhoneStrip /\ [][NextPhoneStrip]_vars

InitGeolocation == /\ geoData \in GeolocationRecords
                   /\ geoOut = NoResult
                   /\ VCardIdle /\ EmailIdle /\ SmsIdle /\ CcIdle
                   /\ EmcIdle /\ WiFiIdle /\ PhoneIdle /\ CalIdle /\ VCardFormIdle /\ CalendarFormIdle /\ PageIdle
                   /\ RestIdle
NextGeolocation == CallEncodeGeolocation
SpecGeolocation == InitGeolocation /\ [][NextGeolocation]_vars

InitCheck == /\ ccArgs \in [foreground : CheckColors, background : CheckColors]
             /\ ccOut = NoCheck
             /\ GccIdle /\ EncIdle
             /\ EmcIdle /\ WiFiIdle /\ PhoneIdle /\ CalIdle /\ VCardFormIdle /\ CalendarFormIdle /\ PageIdle
             /\ RestIdle
NextCheck == CallCheckContrastLevel
SpecCheck == InitCheck /\ [][NextCheck]_vars

InitGenerate == /\ gccPc = "called"
                /\ gccForegroundLight = "undefined"
                /\ gccForeground = Undefined /\ gccBackground = Undefined
                /\ grcColor = Undefined
                /\ CheckIdle /\ EncIdle
                /\ EmcIdle /\ WiFiIdle /\ PhoneIdle /\ CalIdle /\ VCardFormIdle /\ CalendarFormIdle /\ PageIdle
                /\ RestIdle
NextGenerate ==
    \/ \E light \in {"true", "false"} : GccStart(light)
    \/ \E color \in RandomColors : GrcDraw(color)
    \/ GccCheckRatio
SpecGenerate == InitGenerate /\ [][NextGenerate]_vars

\* Calls in which at least one colour is malformed.
InitMalformed ==
    /\ ccArgs \in [foreground : CheckColors, background : CheckColors]
    /\ (ccArgs.foreground \in MalformedColors \/ ccArgs.background \in MalformedColors)
    /\ ccOut = NoCheck
    /\ emcArgs \in [colorToAdjust : MalformedColors \cup {<<"#", "0", "0", "0", "0", "0", "0">>, <<"#", "9", "4", "9", "4", "9", "4">>},
                    referenceColor : MalformedColors \cup {<<"#", "F", "F", "F", "F", "F", "F">>},
                    minRatio : {45}]
    /\ (emcArgs.colorToAdjust \in MalformedColors
        \/ emcArgs.referenceColor \in MalformedColors)
    /\ emcPc = "called"
    /\ emcAdjusted = <<>> /\ emcAttempts = 0 /\ emcResult = NoResult
    /\ emcVisited = {}
    /\ GccIdle /\ EncIdle
    /\ WiFiIdle /\ PhoneIdle /\ CalIdle /\ VCardFormIdle /\ CalendarFormIdle /\ PageIdle
    /\ RestIdle
NextMalformed == CallCheckContrastLevel \/ EmcEnter \/ EmcLoopStep \/ EmcReturn
SpecMalformed == InitMalformed /\ [][NextMalformed]_vars

AllButRestIdle ==
    /\ EmcIdle /\ WiFiIdle /\ PhoneIdle /\ CalIdle /\ VCardFormIdle /\ CalendarFormIdle /\ PageIdle
    /\ EncIdle /\ CcIdle

InitValidPhone == /\ valPhone \in StrUpTo(DialAlphabet, MaxDialLen)
                  /\ valPhoneOut = NoVerdict
                  /\ CoordValIdle /\ FileValIdle /\ PreviewIdle /\ DebounceIdle
                  /\ AllButRestIdle
NextValidPhone == CallIsValidPhone
SpecValidPhone == InitValidPhone /\ [][NextValidPhone]_vars

InitCoordinates == /\ valNumber \in Coordinates
                   /\ valLatOut = NoVerdict /\ valLngOut = NoVerdict
                   /\ PhoneValIdle /\ FileValIdle /\ PreviewIdle /\ DebounceIdle
                   /\ AllButRestIdle
NextCoordinates == CallIsValidLatitude \/ CallIsValidLongitude
SpecCoordinates == InitCoordinates /\ [][NextCoordinates]_vars

InitLogoFile == /\ valFile \in ValidatedFiles
                /\ valFileOut = NoValidation
                /\ PhoneValIdle /\ CoordValIdle /\ PreviewIdle /\ DebounceIdle
                /\ AllButRestIdle
NextLogoFile == CallValidateLogoFile
SpecLogoFile == InitLogoFile /\ [][NextLogoFile]_vars

\* A call of ensureMinimumContrast is synchronous: once entered it runs on
\* until it returns.
SpecContrastFair == InitContrast /\ [][NextContrast]_vars /\ WF_vars(NextContrast)

\* QRPreviewCanvas mounts: both components render for the first time and
\* every effect runs.
InitPreview == /\ debouncedState \in PreviewProps
               /\ isLoading = FALSE /\ error = "null" /\ rendererMounted = TRUE
               /\ qrRef = NoInstance
               /\ prevMarginRef = debouncedState.margin
               /\ prevShapeRef = debouncedState.shape
               /\ effects = <<"render", "loading">>
               /\ renderOutcome = "pending"
               /\ ValIdle /\ DebounceIdle
               /\ AllButRestIdle
NextPreview ==
    \/ \E props \in PreviewProps : PreviewRender(props)
    \/ RenderEffect
    \/ LoadingEffect
SpecPreview == InitPreview /\ [][NextPreview]_vars

\* React runs the effects of a commit; nothing makes the user change a prop.
SpecPreviewFair == SpecPreview /\ WF_vars(RenderEffect) /\ WF_vars(LoadingEffect)

\* useDebounce in the first render: useState(inputValue), and the effect sets
\* the first timeout.
InitDebounce == /\ inputValue \in DebounceValues
                /\ debouncedValue = inputValue
                /\ timers = {[value |-> inputValue, remaining |-> DebounceDelay]}
                /\ valueAge = 0
                /\ ValIdle /\ PreviewIdle
                /\ AllButRestIdle
NextDebounce ==
    \/ \E v \in DebounceValues : ValueChange(v)
    \/ DebounceTick
    \/ TimeoutRuns
SpecDebounce == InitDebounce /\ [][NextDebounce]_vars

\* Time passes and a due timeout runs; nothing makes the inputValue change.
SpecDebounceFair == SpecDebounce /\ WF_vars(DebounceTick) /\ WF_vars(TimeoutRuns)

Init == InitWiFi
Next == NextWiFi
Spec == SpecWiFi

----------------------------------------------------------------------------
(* Reading a WIFI: payload back, as a scanner does *)

\* The payload cut at every semicolon that is not escaped by a backslash.
RECURSIVE SplitUnescaped(_, _, _)
SplitUnescaped(s, cur, esc) ==
    IF s = <<>> THEN <<cur>>
    ELSE IF esc THEN SplitUnescaped(Tail(s), Append(cur, Head(s)), FALSE)
    ELSE IF Head(s) = "\\" THEN SplitUnescaped(Tail(s), Append(cur, Head(s)), TRUE)
    ELSE IF Head(s) = ";" THEN <<cur>> \o SplitUnescaped(Tail(s), <<>>, FALSE)
    ELSE SplitUnescaped(Tail(s), Append(cur, Head(s)), FALSE)

WiFiSegments(out) == SplitUnescaped(out, <<>>, FALSE)

\* One level of backslash escaping removed.
RECURSIVE Unescape(_)
Unescape(s) ==
    IF s = <<>> THEN <<>>
    ELSE IF Head(s) = "\\" /\ Len(s) >= 2
         THEN <<s[2]>> \o Unescape(SubSeq(s, 3, Len(s)))
         ELSE <<Head(s)>> \o Unescape(Tail(s))

DropPrefix(s, n) == SubSeq(s, n + 1, Len(s))

HasPasswordSegment(out) ==
    \E i \in 2..Len(WiFiSegments(out)) : IsPrefix(<<"P", ":">>, WiFiSegments(out)[i])

----------------------------------------------------------------------------
(* Claims about encodeWiFi *)

\* C2: un-escaping the SSID segment of the payload gives back the SSID, and
\* un-escaping the password segment, when there is one, gives back the
\* password, for strings over ; , : " \ and a letter.
C2_WiFiRoundTrip ==
    wifiOut # NoResult =>
        LET segs == WiFiSegments(wifiOut) IN
        /\ Len(segs) >= 2
        /\ IsPrefix(<<"S", ":">>, segs[2])
        /\ Unescape(DropPrefix(segs[2], 2)) = wifiCred.ssid
        /\ (wifiCred.encryption # "nopass" /\ WiFiPassword(wifiCred) # <<>>) =>
              /\ Len(segs) >= 3
              /\ IsPrefix(<<"P", ":">>, segs[3])
              /\ Unescape(DropPrefix(segs[3], 2)) = wifiCred.password

C2_Witness ==
    /\ wifiOut # NoResult
    /\ wifiCred.ssid = <<"\\", ";">>
    /\ wifiCred.password = <<":", "\\">>
    /\ wifiCred.encryption = "WPA"

\* C4: the payload has a P: segment exactly when the encryption is not
\* nopass and the password is not empty.
C4_PasswordSegmentIff ==
    wifiOut # NoResult =>
        (HasPasswordSegment(wifiOut)
            <=> (wifiCred.encryption # "nopass" /\ WiFiPassword(wifiCred) # <<>>))

C4_Witness ==
    /\ wifiOut # NoResult
    /\ wifiCred.encryption = "nopass"
    /\ wifiCred.password = <<"P", ":">>
    /\ wifiCred.ssid = <<"P", ":">>

\* C5: the payload is WIFI:T:<encryption>;S:<escaped ssid>; then the
\* optional password segment, then H:true; exactly when hidden is true, then
\* a final semicolon, so that it ends with two semicolons.
C5_WiFiFormat ==
    wifiOut # NoResult =>
        LET segs == WiFiSegments(wifiOut)
            n == Len(segs)
            hasP == wifiCred.encryption # "nopass" /\ WiFiPassword(wifiCred) # <<>>
            hasH == wifiCred.hidden = "true"
        IN
        /\ IsSuffix(<<";", ";">>, wifiOut)
        /\ n = 4 + (IF hasP THEN 1 ELSE 0) + (IF hasH THEN 1 ELSE 0)
        /\ segs[1] = <<"W", "I", "F", "I", ":", "T", ":">>
                        \o EncryptionText(wifiCred.encryption)
        /\ IsPrefix(<<"S", ":">>, segs[2])
        /\ hasP => IsPrefix(<<"P", ":">>, segs[3])
        /\ hasH => segs[n - 2] = <<"H", ":", "t", "r", "u", "e">>
        /\ segs[n - 1] = <<>>
        /\ segs[n] = <<>>

C5_Witness ==
    /\ wifiOut # NoResult
    /\ wifiCred.hidden = "false"
    /\ wifiCred.ssid = <<"\\">>
    /\ wifiCred.password = Undefined

----------------------------------------------------------------------------
(* Claims about encodePhone *)

\* C3: encodePhone returns tel: followed by digits only, with at most one
\* plus sign, which can only be the first character.
C3_PhoneLeadingPlusOnly ==
    phoneOut # NoResult =>
        /\ IsPrefix(<<"t", "e", "l", ":">>, phoneOut)
        /\ \A i \in 5..Len(phoneOut) :
              \/ phoneOut[i] \in Digits
              \/ (phoneOut[i] = "+" /\ i = 5)

----------------------------------------------------------------------------
(* Claims about the encoders as a whole *)

\* C1: every encoder call returns a string and raises no error, also for a
\* calendar event whose start or end date does not parse.
C1_EncodersTotal ==
    /\ wifiOut # RangeError
    /\ phoneOut # RangeError
    /\ calOut # RangeError

----------------------------------------------------------------------------
(* Claims about the forms *)

\* C7: in the contact form the payload emitted by an edit encodes the
\* current values of all fields, the value just entered included.
C7_VCardEmitsCurrentValues ==
    qrState.content # <<>> =>
        qrState.content = encodeVCard(VCardRecord(vcFields))

\* The k-th line of a text whose lines are separated by "\n".
NewlinesUpTo(str, i) == Cardinality({j \in 1..i : str[j] = "\n"})
Line(str, k) ==
    SelectSeq([i \in 1..Len(str) |->
                  IF str[i] # "\n" /\ NewlinesUpTo(str, i) = k - 1
                  THEN str[i] ELSE "\n"],
              LAMBDA ch : ch # "\n")

\* The instant of a YYYYMMDDTHHMMSSZ value, in milliseconds.
ICalInstant(s) ==
    (Num2(s, 7) - 1) * MsPerDay + Num2(s, 10) * MsPerHour
    + Num2(s, 12) * MsPerMinute + Num2(s, 14) * MsPerSecond

\* C8: every payload the calendar form emits has a DTEND instant that is
\* not earlier than its DTSTART instant.
C8_EndNotBeforeStart ==
    qrState.content # <<>> =>
        LET dtstart == Line(qrState.content, 5)
            dtend == Line(qrState.content, 6)
        IN
        /\ IsPrefix(<<"D", "T", "S", "T", "A", "R", "T", ":">>, dtstart)
        /\ IsPrefix(<<"D", "T", "E", "N", "D", ":">>, dtend)
        /\ ICalInstant(DropPrefix(dtend, 6)) >= ICalInstant(DropPrefix(dtstart, 8))

----------------------------------------------------------------------------
(* Claims about the page state *)

\* C9: the logo size held in the state lies between 10 and 30 per cent, and
\* so does the image size ratio handed to the rendering library.
C9_LogoSizeWithinRange ==
    LET ratio == logoSizeRatio(qrState.logoSize) IN
    /\ qrState.logoSize >= 10 /\ qrState.logoSize <= 30
    /\ 10 * ratio.den <= 100 * ratio.num
    /\ 100 * ratio.num <= 30 * ratio.den

\* C10: a step that puts a logo into the state leaves the state with the
\* data URL of that logo and with error correction level H, whatever the
\* level was before.
C10_UploadSetsLevelH ==
    [][(qrState'.logo # qrState.logo /\ qrState'.logo # NoFile) =>
          /\ qrState'.logoDataUrl = DataUrl(qrState'.logo)
          /\ qrState'.errorCorrectionLevel = "H"]_vars

C10_Witness ==
    /\ qrState.logo # NoFile
    /\ qrState.logoDataUrl = DataUrl(qrState.logo)
    /\ qrState.errorCorrectionLevel = "H"
    /\ reads = {}

----------------------------------------------------------------------------
(* Claims about ensureMinimumContrast *)

\* C6: when the attempt cap is reached without reaching minRatio, the
\* colour returned has a contrast ratio against the reference that is at
\* least that of every colour visited, colorToAdjust included.
C6_ReturnsBestAttempt ==
    (/\ emcPc = "done"
     /\ emcAttempts = maxAttempts
     /\ RatioBelow(getContrastRatio(emcResult, emcArgs.referenceColor), EmcMinRatio))
    => \A v \in emcVisited :
          ~RatioLess(getContrastRatio(emcResult, emcArgs.referenceColor),
                     getContrastRatio(v, emcArgs.referenceColor))

----------------------------------------------------------------------------
(* Claims about encodeVCard *)

NewlineCount(str) == Cardinality({j \in 1..Len(str) : str[j] = "\n"})

\* The optional fields in the order their lines take, each with its tag.
VCardOptionalOrder ==
    <<[field |-> "organization", tag |-> <<"O", "R", "G">>],
      [field |-> "title", tag |-> <<"T", "I", "T", "L", "E">>],
      [field |-> "phone", tag |-> <<"T", "E", "L", ";", "T", "Y", "P", "E", "=", "C", "E", "L", "L">>],
      [field |-> "email", tag |-> <<"E", "M", "A", "I", "L">>],
      [field |-> "url", tag |-> <<"U", "R", "L">>],
      [field |-> "address", tag |-> <<"A", "D", "R">>],
      [field |-> "note", tag |-> <<"N", "O", "T", "E">>]>>

VCardPresent(data) == {f \in VCardFieldNames \ {"firstName", "lastName"} :
                          data[f] # Undefined /\ data[f] # <<>>}

\* The value part of the line of an optional field.
VCardLineValue(data, f) ==
    CASE f = "phone" -> DropPrefix(encodePhone(data.phone), 4)
      [] f = "address" -> <<";", ";">> \o data.address \o <<";", ";", ";", ";">>
      [] OTHER -> data[f]

RECURSIVE VCardOptionalLines(_, _)
VCardOptionalLines(data, k) ==
    IF k > Len(VCardOptionalOrder) THEN <<>>
    ELSE LET e == VCardOptionalOrder[k] IN
         (IF e.field \in VCardPresent(data)
          THEN e.tag \o <<":">> \o VCardLineValue(data, e.field) \o <<"\n">>
          ELSE <<>>)
         \o VCardOptionalLines(data, k + 1)

\* The line breaks held by the values of the optional fields that are
\* copied into the output as they are.
RECURSIVE VCardValueNewlines(_, _)
VCardValueNewlines(data, k) ==
    IF k > Len(VCardOptionalOrder) THEN 0
    ELSE LET f == VCardOptionalOrder[k].field IN
         (IF f \in VCardPresent(data) /\ f # "phone" THEN NewlineCount(data[f]) ELSE 0)
         + VCardValueNewlines(data, k + 1)

----------------------------------------------------------------------------
(* Claims about encodeCalendarEvent *)

\* YYYYMMDD and YYYYMMDDTHHMMSSZ of a time value, in UTC.
ICalDate(ms) == <<"2", "0", "2", "4", "0", "1">> \o Pad2((ms \div MsPerDay) + 1)
ICalDateTime(ms) ==
    ICalDate(ms) \o <<"T">> \o Pad2((ms % MsPerDay) \div MsPerHour)
    \o Pad2((ms % MsPerHour) \div MsPerMinute)
    \o Pad2((ms % MsPerMinute) \div MsPerSecond) \o <<"Z">>

\* The lines an event is to give, in their order.
ICalExpectedLines(data) ==
    <<<<"B", "E", "G", "I", "N", ":", "V", "C", "A", "L", "E", "N", "D", "A", "R">>, <<"V", "E", "R", "S", "I", "O", "N", ":", "2", ".", "0">>, <<"B", "E", "G", "I", "N", ":", "V", "E", "V", "E", "N", "T">>, <<"S", "U", "M", "M", "A", "R", "Y", ":">> \o data.title>>
    \o (IF data.allDay = "true"
        THEN <<<<"D", "T", "S", "T", "A", "R", "T", ";", "V", "A", "L", "U", "E", "=", "D", "A", "T", "E", ":">> \o ICalDate(DateParse(data.startDate)),
               <<"D", "T", "E", "N", "D", ";", "V", "A", "L", "U", "E", "=", "D", "A", "T", "E", ":">> \o ICalDate(DateParse(data.endDate))>>
        ELSE <<<<"D", "T", "S", "T", "A", "R", "T", ":">> \o ICalDateTime(DateParse(data.startDate)),
               <<"D", "T", "E", "N", "D", ":">> \o ICalDateTime(DateParse(data.endDate))>>)
    \o (IF data.location # Undefined /\ data.location # <<>>
        THEN <<<<"L", "O", "C", "A", "T", "I", "O", "N", ":">> \o data.location>> ELSE <<>>)
    \o (IF data.description # Undefined /\ data.description # <<>>
        THEN <<<<"D", "E", "S", "C", "R", "I", "P", "T", "I", "O", "N", ":">> \o data.description>> ELSE <<>>)
    \o <<<<"E", "N", "D", ":", "V", "E", "V", "E", "N", "T">>, <<"E", "N", "D", ":", "V", "C", "A", "L", "E", "N", "D", "A", "R">>>>

\* C12: for an event whose dates parse, the lines of the output are
\* BEGIN:VCALENDAR, VERSION:2.0, BEGIN:VEVENT, SUMMARY:<title>, DTSTART,
\* DTEND, LOCATION only for a non-empty location, DESCRIPTION only for a
\* non-empty description, END:VEVENT, END:VCALENDAR; the date lines are
\* DTSTART;VALUE=DATE:<YYYYMMDD> and DTEND;VALUE=DATE:<YYYYMMDD> when allDay
\* is true and DTSTART:<YYYYMMDDTHHMMSSZ> and DTEND:<YYYYMMDDTHHMMSSZ>
\* otherwise, of the UTC instant.
C12_CalendarFormat ==
    (/\ calOut # NoResult
     /\ DateParse(calEvent.startDate) # NaN
     /\ DateParse(calEvent.endDate) # NaN) =>
        LET expected == ICalExpectedLines(calEvent) IN
        /\ calOut # RangeError
        /\ NewlineCount(calOut) = Len(expected) - 1
        /\ \A k \in 1..Len(expected) : Line(calOut, k) = expected[k]

C12_Witness ==
    /\ calOut # NoResult
    /\ calEvent.allDay = "true"
    /\ calEvent.startDate = <<"2", "0", "2", "4", "-", "0", "1", "-", "1", "0", "T", "0", "1", ":", "3", "0", ":", "1", "5", ".", "0", "0", "0", "+", "0", "2", ":", "0", "0">>
    /\ calEvent.location = <<"L">>
    /\ calEvent.description = Undefined
    /\ Line(calOut, 5) = <<"D", "T", "S", "T", "A", "R", "T", ";", "V", "A", "L", "U", "E", "=", "D", "A", "T", "E", ":", "2", "0", "2", "4", "0", "1", "0", "9">>
    /\ Line(calOut, 7) = <<"L", "O", "C", "A", "T", "I", "O", "N", ":", "L">>

----------------------------------------------------------------------------
(* Claims about encodeEmail *)

\* The k-th piece of a text whose pieces are separated by sep.
SepsUpTo(str, sep, i) == Cardinality({j \in 1..i : str[j] = sep})
Piece(str, sep, k) ==
    SelectSeq([i \in 1..Len(str) |->
                  IF str[i] # sep /\ SepsUpTo(str, sep, i) = k - 1
                  THEN str[i] ELSE sep],
              LAMBDA ch : ch # sep)

\* Reading a percent-encoded text back, as the receiver of a URL does.
UriEscaped == {" ", "%", "&", "=", "?", "@", LatinSmallEAcute}
RECURSIVE UriDecode(_)
UriDecode(s) ==
    IF s = <<>> THEN <<>>
    ELSE IF Head(s) # "%" THEN <<Head(s)>> \o UriDecode(Tail(s))
    ELSE LET ch == CHOOSE c \in UriEscaped : IsPrefix(UriEscape(c), s)
         IN <<ch>> \o UriDecode(DropPrefix(s, Len(UriEscape(ch))))

\* A text in which everything but unreserved characters is escaped.
IsUriEncoded(s) ==
    LET hex == {HexDigitsUpper[v] : v \in 1..16}
        inEscape(i) == (i > 1 /\ s[i - 1] = "%") \/ (i > 2 /\ s[i - 2] = "%")
    IN
    \A i \in 1..Len(s) :
        IF inEscape(i) THEN s[i] \in hex
        ELSE IF s[i] = "%" THEN i + 2 <= Len(s)
        ELSE s[i] \in UriUnreserved

EmailPresent(v) == v # Undefined /\ v # <<>>

\* C13: encodeEmail returns mailto:<email> without "?" when neither
\* subject nor body is present; otherwise "?" follows the address, then
\* the present parameters joined by "&", subject before body, and each
\* value is percent-encoded on its own: decoding the text after subject=
\* gives the subject, decoding the text after body= gives the body.
C13_EmailFormat ==
    (emailOut # NoResult /\ emailOut # URIError) =>
        LET data == emailData
            address == <<"m", "a", "i", "l", "t", "o", ":">> \o data.email
            query == DropPrefix(emailOut, Len(address) + 1)
            hasSubject == EmailPresent(data.subject)
            hasBody == EmailPresent(data.body)
        IN
        /\ IsPrefix(address, emailOut)
        /\ (~hasSubject /\ ~hasBody) =>
              /\ emailOut = address
              /\ \A i \in 1..Len(emailOut) : emailOut[i] # "?"
        /\ (hasSubject \/ hasBody) =>
              /\ Len(emailOut) > Len(address) /\ emailOut[Len(address) + 1] = "?"
              /\ SepsUpTo(query, "&", Len(query)) =
                    (IF hasSubject /\ hasBody THEN 1 ELSE 0)
              /\ \A i \in 1..Len(query) : query[i] # "?"
        /\ hasSubject =>
              LET p == Piece(query, "&", 1) IN
              /\ IsPrefix(<<"s", "u", "b", "j", "e", "c", "t", "=">>, p)
              /\ IsUriEncoded(DropPrefix(p, 8))
              /\ UriDecode(DropPrefix(p, 8)) = data.subject
        /\ hasBody =>
              LET p == Piece(query, "&", IF hasSubject THEN 2 ELSE 1) IN
              /\ IsPrefix(<<"b", "o", "d", "y", "=">>, p)
              /\ IsUriEncoded(DropPrefix(p, 5))
              /\ UriDecode(DropPrefix(p, 5)) = data.body

C13_Witness ==
    /\ emailData.subject = <<"a", " ">>
    /\ emailData.body = <<"&", LatinSmallEAcute>>
    /\ emailOut = <<"m", "a", "i", "l", "t", "o", ":", "a", "@", "b", "?", "s", "u", "b", "j", "e", "c", "t", "=", "a", "%", "2", "0", "&", "b", "o", "d", "y", "=", "%", "2", "6", "%", "C", "3", "%", "A", "9">>

----------------------------------------------------------------------------
(* Claims about encodeSMS and the TEL line of encodeVCard *)

\* The lines of a text that begin with a given prefix.
LinesWithPrefix(str, p) ==
    {k \in 1..(NewlineCount(str) + 1) : IsPrefix(p, Line(str, k))}

\* C14: with n the text that follows tel: in encodePhone(p), encodeSMS
\* gives smsto:<n>, or smsto:<n>:<message> for a non-empty message, and
\* encodeVCard gives the one line TEL;TYPE=CELL:<n> for a non-empty p and
\* no TEL line for an empty p.
C14_SameStripping ==
    /\ smsOut # NoResult =>
          LET n == DropPrefix(encodePhone(smsData.phone), 4) IN
          smsOut = IF smsData.message # Undefined /\ smsData.message # <<>>
                   THEN <<"s", "m", "s", "t", "o", ":">> \o n \o <<":">> \o smsData.message
                   ELSE <<"s", "m", "s", "t", "o", ":">> \o n
    /\ vcardOut # NoResult =>
          LET n == DropPrefix(encodePhone(vcardData.phone), 4)
              tel == LinesWithPrefix(vcardOut, <<"T", "E", "L">>)
          IN
          IF vcardData.phone = <<>> THEN tel = {}
          ELSE /\ Cardinality(tel) = 1
               /\ \A k \in tel : Line(vcardOut, k) = <<"T", "E", "L", ";", "T", "Y", "P", "E", "=", "C", "E", "L", "L", ":">> \o n
    /\ (phoneOut # NoResult /\ smsOut # NoResult /\ vcardOut # NoResult
        /\ phoneIn # <<>>) =>
          /\ IsPrefix(<<"s", "m", "s", "t", "o", ":">> \o DropPrefix(phoneOut, 4), smsOut)
          /\ \E k \in 1..(NewlineCount(vcardOut) + 1) :
                Line(vcardOut, k) = <<"T", "E", "L", ";", "T", "Y", "P", "E", "=", "C", "E", "L", "L", ":">> \o DropPrefix(phoneOut, 4)

C14_Witness ==
    /\ phoneIn = <<"+", "1", "-">>
    /\ phoneOut = <<"t", "e", "l", ":", "+", "1">>
    /\ smsOut = <<"s", "m", "s", "t", "o", ":", "+", "1", ":", "a", ":", "b">>
    /\ vcardData.organization = <<"O">>
    /\ Line(vcardOut, 6) = <<"T", "E", "L", ";", "T", "Y", "P", "E", "=", "C", "E", "L", "L", ":", "+", "1">>

----------------------------------------------------------------------------
(* Claims about encodeGeolocation *)

RECURSIVE StringToNat(_)
StringToNat(s) ==
    IF s = <<>> THEN 0
    ELSE StringToNat(SubSeq(s, 1, Len(s) - 1)) * 10 + DigitVal(s[Len(s)])

\* Reading a decimal numeral back, as the receiver of a geo URI does.
ParseNumber(s) ==
    IF s = <<"N", "a", "N">> THEN NaNNumber
    ELSE LET negative == s # <<>> /\ Head(s) = "-"
             digits == IF negative THEN Tail(s) ELSE s
             whole == Piece(digits, ".", 1)
             fraction == Piece(digits, ".", 2)
             padded == SubSeq(fraction \o <<"0", "0", "0", "0">>, 1, 4)
             e4 == StringToNat(whole) * 10000 + StringToNat(padded)
         IN Number(IF negative THEN 0 - e4 ELSE e4)

\* A decimal numeral as the default conversion writes it: digits, an
\* optional fraction that does not end in 0, no exponent, no padding.
IsPlainNumeral(s) ==
    \/ s = <<"N", "a", "N">>
    \/ LET digits == IF s # <<>> /\ Head(s) = "-" THEN Tail(s) ELSE s
           whole == Piece(digits, ".", 1)
           dots == SepsUpTo(digits, ".", Len(digits))
       IN
       /\ digits # <<>> /\ whole # <<>>
       /\ \A i \in 1..Len(digits) : digits[i] \in Digits \cup {"."}
       /\ dots <= 1
       /\ (Len(whole) > 1 => Head(whole) # "0")
       /\ (dots = 1 => digits[Len(digits)] \notin {"0", "."})

\* C15: the output is geo:<lat>,<lng> when no altitude is supplied and
\* geo:<lat>,<lng>,<alt> when one is, an altitude of 0 included; each
\* number is written in its default form and reads back as the number that
\* was handed in.
C15_GeolocationFormat ==
    geoOut # NoResult =>
        LET body == DropPrefix(geoOut, 4)
            commas == SepsUpTo(body, ",", Len(body))
        IN
        /\ IsPrefix(<<"g", "e", "o", ":">>, geoOut)
        /\ commas = (IF geoData.altitude = UndefinedNumber THEN 1 ELSE 2)
        /\ IsPlainNumeral(Piece(body, ",", 1))
        /\ ParseNumber(Piece(body, ",", 1)) = geoData.latitude
        /\ IsPlainNumeral(Piece(body, ",", 2))
        /\ ParseNumber(Piece(body, ",", 2)) = geoData.longitude
        /\ geoData.altitude # UndefinedNumber =>
              /\ IsPlainNumeral(Piece(body, ",", 3))
              /\ ParseNumber(Piece(body, ",", 3)) = geoData.altitude

C15_Witness ==
    /\ geoData.altitude = Number(0)
    /\ geoOut = <<"g", "e", "o", ":", "3", "7", ".", "7", "7", "4", "9", ",", "-", "1", "2", "2", ".", "4", "1", "9", "4", ",", "0">>

----------------------------------------------------------------------------
(* Claims about generateContrastingColors *)

\* C16: the pair generateContrastingColors returns has a contrast ratio of
\* at least 7 between foreground and background, and checkContrastLevel
\* calls it excellent, whatever was drawn on the way.
C16_GeneratedPairExcellent ==
    gccPc = "done" =>
        /\ getContrastRatio(gccForeground, gccBackground).num
              >= 7 * getContrastRatio(gccForeground, gccBackground).den
        /\ checkContrastLevel(gccForeground, gccBackground).level = "excellent"
        /\ checkContrastLevel(gccBackground, gccForeground).level = "excellent"

C16_Witness ==
    /\ gccPc = "done"
    /\ gccForegroundLight = "false"
    /\ gccForeground = <<"#", "5", "9", "5", "9", "5", "9">>
    /\ gccBackground = <<"#", "F", "F", "F", "F", "F", "F">>
    /\ grcColor = <<"#", "5", "9", "5", "9", "5", "9">>

----------------------------------------------------------------------------
(* Claims about getContrastRatio and checkContrastLevel *)

IsWellFormedHex(hex) == hexToRgb(hex) # NoRgb

\* C17: for two well-formed colours the contrast ratio is at least 1 and at
\* most 21; it is exactly 1 when the two are the same colour and exactly 21
\* for black against white.
C17_RatioRange ==
    (/\ ccOut # NoCheck
     /\ IsWellFormedHex(ccArgs.foreground)
     /\ IsWellFormedHex(ccArgs.background)) =>
        /\ ccOut.ratio = getContrastRatio(ccArgs.foreground, ccArgs.background)
        /\ ccOut.ratio.den > 0
        /\ ccOut.ratio.num >= ccOut.ratio.den
        /\ ccOut.ratio.num <= 21 * ccOut.ratio.den
        /\ (hexToRgb(ccArgs.foreground) = hexToRgb(ccArgs.background)) =>
              ccOut.ratio.num = ccOut.ratio.den
        /\ ({hexToRgb(ccArgs.foreground), hexToRgb(ccArgs.background)}
               = {[r |-> 0, g |-> 0, b |-> 0], [r |-> 255, g |-> 255, b |-> 255]}) =>
              ccOut.ratio.num = 21 * ccOut.ratio.den

C17_Witness ==
    /\ ccArgs.foreground = <<"#", "0", "0", "0", "0", "0", "0">>
    /\ ccArgs.background = <<"#", "f", "f", "f", "f", "f", "f">>
    /\ ccOut # NoCheck
    /\ ccOut.ratio.num = 21 * ccOut.ratio.den

\* C18: contrast is symmetric: swapping the two colours gives the same
\* contrast ratio, and checkContrastLevel gives the same ratio, level,
\* isScannable and warning.
C18_ContrastSymmetric ==
    ccOut # NoCheck =>
        LET swapped == checkContrastLevel(ccArgs.background, ccArgs.foreground) IN
        /\ getContrastRatio(ccArgs.foreground, ccArgs.background)
              = getContrastRatio(ccArgs.background, ccArgs.foreground)
        /\ ccOut.ratio = swapped.ratio
        /\ ccOut.level = swapped.level
        /\ ccOut.isScannable = swapped.isScannable
        /\ ccOut.warning = swapped.warning

C18_Witness ==
    /\ ccArgs.foreground = <<"#", "0", "0", "0", "0", "F", "F">>
    /\ ccArgs.background = <<"#", "F", "F", "F", "F", "F", "F">>
    /\ ccOut # NoCheck
    /\ ccOut.level = "excellent"

\* C19: the level follows the ratio by fixed thresholds with inclusive
\* lower bounds: excellent from 7, good from 4.5 to below 7, fair from 3 to
\* below 4.5, poor below 3; isScannable is false exactly for poor, a
\* warning is present exactly for fair and poor.
C19_LevelThresholds ==
    ccOut # NoCheck =>
        LET n == 10 * ccOut.ratio.num
            d == ccOut.ratio.den
        IN
        /\ ccOut.ratio = getContrastRatio(ccArgs.foreground, ccArgs.background)
        /\ ccOut.level \in {"excellent", "good", "fair", "poor"}
        /\ ccOut.level = "excellent" <=> n >= 70 * d
        /\ ccOut.level = "good" <=> (n >= 45 * d /\ n < 70 * d)
        /\ ccOut.level = "fair" <=> (n >= 30 * d /\ n < 45 * d)
        /\ ccOut.level = "poor" <=> n < 30 * d
        /\ ccOut.isScannable <=> ccOut.level # "poor"
        /\ ccOut.warning # NoWarning <=> ccOut.level \in {"fair", "poor"}

C19_Witness ==
    /\ ccArgs.foreground = <<"#", "7", "7", "7", "7", "7", "7">>
    /\ ccArgs.background = <<"#", "F", "F", "F", "F", "F", "F">>
    /\ ccOut # NoCheck
    /\ ccOut.level = "fair"
    /\ ccOut.isScannable
    /\ ccOut.warning = LowContrastWarning

----------------------------------------------------------------------------
(* Claims about malformed colours *)

\* The colour a malformed colour counts as.
AsBlack(hex) == IF hexToRgb(hex) = NoRgb THEN <<"#", "0", "0", "0", "0", "0", "0">> ELSE hex

\* C20: a colour that is not six hex digits with an optional leading # is
\* no error for getContrastRatio, checkContrastLevel and
\* ensureMinimumContrast: each returns a result, and the malformed colour
\* counts with luminance 0, so that its contrast ratio against a colour is
\* that of black against it.
C20_MalformedIsBlack ==
    /\ \A hex \in {ccArgs.foreground, ccArgs.background, emcArgs.colorToAdjust,
                   emcArgs.referenceColor} :
          hexToRgb(hex) = NoRgb => getLuminance(hex) = 0
    /\ ccOut # NoCheck =>
          /\ ccOut.level \in {"excellent", "good", "fair", "poor"}
          /\ ccOut.ratio = getContrastRatio(AsBlack(ccArgs.foreground),
                                            AsBlack(ccArgs.background))
          /\ ccOut = checkContrastLevel(AsBlack(ccArgs.foreground),
                                        AsBlack(ccArgs.background))
    /\ emcPc = "loop" =>
          getContrastRatio(emcAdjusted, emcArgs.referenceColor)
             = getContrastRatio(emcAdjusted, AsBlack(emcArgs.referenceColor))
    /\ emcPc = "done" =>
          /\ emcResult # NoResult
          /\ hexToRgb(emcArgs.colorToAdjust) = NoRgb => emcResult = emcArgs.colorToAdjust
          /\ hexToRgb(emcArgs.colorToAdjust) # NoRgb =>
                \/ ~RatioBelow(getContrastRatio(emcResult, AsBlack(emcArgs.referenceColor)),
                               EmcMinRatio)
                \/ emcAttempts = maxAttempts

C20_Witness ==
    /\ ccArgs.foreground = <<"#", "f", "f", "f">>
    /\ ccArgs.background = <<"#", "F", "F", "F", "F", "F", "F">>
    /\ ccOut # NoCheck
    /\ ccOut.ratio.num = 21 * ccOut.ratio.den
    /\ emcArgs.colorToAdjust = <<"#", "0", "0", "0", "0", "0", "0">>
    /\ emcArgs.referenceColor = <<>>
    /\ emcPc = "done"
    /\ emcAttempts > 0

----------------------------------------------------------------------------
(* Further claims about ensureMinimumContrast *)

\* C21: when the contrast ratio of colorToAdjust against referenceColor is
\* at least minRatio (4.5 when minRatio is left out), the call returns
\* colorToAdjust as the very string it was given, with no adjustment step.
C21_SufficientReturnsUnchanged ==
    (/\ emcPc = "done"
     /\ ~RatioBelow(getContrastRatio(emcArgs.colorToAdjust, emcArgs.referenceColor),
                    EmcMinRatio)) =>
        /\ emcResult = emcArgs.colorToAdjust
        /\ emcAttempts = 0
        /\ emcVisited = {emcArgs.colorToAdjust}

C21_Witness ==
    /\ emcPc = "done"
    /\ emcArgs.colorToAdjust = <<"#", "F", "F", "0", "0", "0", "0">>
    /\ emcArgs.referenceColor = <<"#", "0", "0", "0", "0", "0", "0">>
    /\ emcArgs.minRatio = MinRatioLeftOut
    /\ emcResult = <<"#", "F", "F", "0", "0", "0", "0">>

----------------------------------------------------------------------------
(* Claims about the validators *)

PlusCount(str) == Len(SelectSeq(str, LAMBDA ch : ch = "+"))
DigitCount(str) == Len(SelectSeq(str, LAMBDA ch : ch \in Digits))

\* C22: isValidPhone(p) is true exactly when p is not blank and what is left
\* of p after dropping every character other than a digit or "+" is an
\* optional single leading "+" followed by at least seven digits; a "+" in
\* any other place, or fewer than seven digits, gives false.
C22_ValidPhone ==
    valPhoneOut # NoVerdict =>
        (valPhoneOut = "true" <=>
            /\ \E i \in 1..Len(valPhone) : valPhone[i] \notin WhiteSpace
            /\ LET kept == SelectSeq(valPhone, LAMBDA ch : ch \in Digits \cup {"+"})
               IN /\ PlusCount(kept) <= 1
                  /\ PlusCount(kept) = 1 => kept[1] = "+"
                  /\ DigitCount(kept) >= 7)

C22_Witness ==
    /\ valPhone = <<"5", "5", "5", " ", "5", "5", "5", "5">> /\ valPhoneOut = "true"

\* C23: isValidLatitude is true exactly for a finite number from -90 to 90
\* and isValidLongitude exactly for a finite number from -180 to 180, the
\* bounds included; NaN, the infinities and values just outside are rejected.
C23_ValidCoordinates ==
    /\ valLatOut # NoVerdict =>
          (valLatOut = "true" <=>
              valNumber.kind = "number" /\ valNumber.e4 >= -900000 /\ valNumber.e4 <= 900000)
    /\ valLngOut # NoVerdict =>
          (valLngOut = "true" <=>
              valNumber.kind = "number" /\ valNumber.e4 >= -1800000 /\ valNumber.e4 <= 1800000)

C23_Witness ==
    /\ valNumber = Number(1800000) /\ valLngOut = "true" /\ valLatOut = "false"

\* C24: validateLogoFile accepts a file exactly when its type is supported
\* and its size is at most 2 MiB; a file of a wrong type gets the wrong-type
\* message even when it is also too large, and the too-large message goes
\* only to a file of a supported type over the limit.
C24_ValidateLogoFile ==
    valFileOut # NoValidation =>
        LET supported == valFile.type \in {"image/png", "image/jpeg", "image/jpg", "image/svg+xml"}
            fits == valFile.size <= 2097152
        IN /\ valFileOut.isValid <=> (supported /\ fits)
           /\ ~supported <=> valFileOut.error = "Please upload a PNG, JPG, or SVG file"
           /\ (supported /\ ~fits) <=> valFileOut.error = "Logo file must be less than 2MB"
           /\ valFileOut.isValid => valFileOut.error = "undefined"

C24_Witness ==
    /\ valFile.type = "image/gif" /\ valFile.size = 2 * MAX_LOGO_SIZE
    /\ valFileOut = [isValid |-> FALSE, error |-> "Please upload a PNG, JPG, or SVG file"]

----------------------------------------------------------------------------
(* Termination of ensureMinimumContrast *)

EmcReached(color) ==
    ~RatioBelow(getContrastRatio(color, emcArgs.referenceColor), EmcMinRatio)

\* An iteration of the loop: from a colour below minRatio, each channel moves
\* by 10, clamped, toward white when the reference luminance is below 0.5
\* and toward black otherwise.
EmcStepShape ==
    emcAttempts' # emcAttempts =>
        LET old == hexToRgb(emcAdjusted)
            new == hexToRgb(emcAdjusted')
        IN /\ emcAttempts' = emcAttempts + 1
           /\ ~EmcReached(emcAdjusted)
           /\ old # NoRgb /\ new # NoRgb
           /\ IF getLuminance(emcArgs.referenceColor) < 5000
              THEN /\ new.r = Min(255, old.r + 10)
                   /\ new.g = Min(255, old.g + 10)
                   /\ new.b = Min(255, old.b + 10)
              ELSE /\ new.r = Max(0, old.r - 10)
                   /\ new.g = Max(0, old.g - 10)
                   /\ new.b = Max(0, old.b - 10)

\* C25: every call of ensureMinimumContrast returns; its loop takes at most
\* 100 steps, each step moves every channel by 10 clamped to 0..255, all
\* steps of a call go toward white when the reference luminance is below 0.5
\* and toward black otherwise, and the loop ends with the first colour that
\* reaches minRatio.
C25_Terminates ==
    /\ <>(emcPc = "done")
    /\ [](emcAttempts <= maxAttempts)
    /\ [][EmcStepShape]_vars
    /\ []((emcPc = "done" /\ emcAttempts > 0) =>
            /\ emcResult = emcAdjusted
            /\ emcAttempts < maxAttempts => EmcReached(emcResult)
            /\ \A v \in emcVisited \ {emcResult} : ~EmcReached(v))

C25_Witness ==
    /\ emcPc = "done"
    /\ emcArgs.colorToAdjust = <<"#", "7", "7", "7", "7", "7", "7">>
    /\ emcArgs.referenceColor = <<"#", "f", "f", "f", "f", "f", "f">>
    /\ emcArgs.minRatio = 70
    /\ emcAttempts > 1 /\ emcAttempts < maxAttempts
    /\ EmcReached(emcResult)

----------------------------------------------------------------------------
(* Claims about QRPreviewCanvas and QRCodeRenderer *)

\* C26: after every run of the render effect with a non-blank content that
\* ends without an error, the live QR instance has the margin and the shape
\* of the current props, whatever changes of the props came before.
C26_InstanceCarriesMarginAndShape ==
    renderOutcome = "complete" =>
        /\ qrRef # NoInstance
        /\ qrRef.margin = debouncedState.margin
        /\ qrRef.shape = debouncedState.shape

\* C27: after a render error, a content that can be rendered leads to
\* error = null and a QR code on display again.
C27_ErrorIsRecoverable ==
    (error # "null" /\ effects = <<>> /\ ~ContentIsBlank(debouncedState.content)
       /\ Renderable(debouncedState.content))
    ~> (error = "null" /\ qrRef # NoInstance)

----------------------------------------------------------------------------
(* Claims about useDebounce *)

\* C29: useDebounce outputs a new inputValue only when that inputValue has been the
\* input for the whole delay; a change of the input clears the pending
\* timeout and sets a new one, so at most one timeout is pending and it is
\* for the latest input; and when the input stops changing the debounced
\* inputValue becomes the latest input once the delay has passed.
C29_Debounce ==
    /\ [][debouncedValue' # debouncedValue =>
            (debouncedValue' = inputValue /\ valueAge = DebounceDelay)]_vars
    /\ [](/\ Cardinality(timers) <= 1
          /\ \A t \in timers : t.value = inputValue /\ t.remaining = DebounceDelay - valueAge)
    /\ [](timers = {} => debouncedValue = inputValue)
    /\ \A v \in DebounceValues : (inputValue = v) ~> (debouncedValue = v \/ inputValue # v)

C29_Witness ==
    /\ inputValue = [content |-> <<"b">>, margin |-> 0]
    /\ debouncedValue = [content |-> <<"b">>, margin |-> 0]
    /\ timers = {} /\ valueAge = DebounceDelay

----------------------------------------------------------------------------
(* Further claims about the page state *)

\* C28: when a second logo file is selected before the reads of the first
\* have finished, the logo left once every read has completed is the second
\* file's, in whatever order the reads complete: the last read to complete,
\* if it is of the file selected earlier, does not replace the logo of the
\* file selected later.
C28_LastSelectedLogoWins ==
    [][\A r \in reads :
          (/\ reads = {r} /\ reads' = {}
           /\ r.id < uploads
           /\ qrState.logo # NoFile /\ qrState.logo # r.file)
          => /\ qrState'.logo = qrState.logo
             /\ qrState'.logoDataUrl = qrState.logoDataUrl]_vars

ChangedFields == {f \in DOMAIN qrState : qrState'[f] # qrState[f]}

\* The fields the handlers of the page name in their updates.
NamedFieldSets ==
    {{"dataType", "content"}, {"content"}, {"errorCorrectionLevel"},
     {"logo", "logoDataUrl", "errorCorrectionLevel"}, {"logo", "logoDataUrl"}, {"logoSize"}}

\* C30: selecting a data type sets dataType and resets content to "" and
\* leaves every other field of the QR state as it was; every update of the
\* state changes only fields that the handler names.
C30_UpdatesMergeNamedFields ==
    [][/\ DOMAIN qrState' = DOMAIN qrState
       /\ qrState'.dataType # qrState.dataType =>
             /\ qrState'.content = <<>>
             /\ ChangedFields \subseteq {"dataType", "content"}
       /\ \E named \in NamedFieldSets : ChangedFields \subseteq named]_vars

C30_Witness ==
    /\ qrState.dataType = "wifi" /\ qrState.content = <<>>
    /\ qrState.logoDataUrl # NullUrl
    /\ qrState.logoSize # InitialQRState.logoSize
    /\ qrState.errorCorrectionLevel = "H"

====
